---- MODULE Spec2Model ----
(***************************************************************************)
(* Verification model of the spine reconstruction and vertebra analysis    *)
(* pipeline (spine_analyzer_pro): bone segmentation and cleanup, the       *)
(* dual-mode density window, vertebra detection and labelling, vertebra    *)
(* classification and mesh generation.                                     *)
(*                                                                         *)
(* Numbers.  Voxel values are rationals; a value v is stored as the        *)
(* integer v * HU_SPAN (HU_SPAN = 4024), so that both a density in         *)
(* Hounsfield units and its rescaling (v + 1024) / 4024 to [0,1] are       *)
(* exact integers.  Confidences are stored in hundredths.                  *)
(***************************************************************************)
EXTENDS Integers, Sequences, FiniteSets, TLC

VARIABLES
    pc,          \* position of the operation sequence being exercised
    shape,       \* <<nz, ny, nx>> of the volume
    volume,      \* [Grid(shape) -> stored voxel value]
    hu_low,      \* lower bound of the density window (HU)
    hu_high,     \* upper bound of the density window (HU)
    min_size,    \* min_size argument of segment_with_cleanup
    scipy_ok,    \* whether "from scipy.ndimage import ..." succeeds
    seg_mask,    \* result of BoneSegmenter.segment(volume)
    clean_mask,  \* result of BoneSegmenter.segment_with_cleanup(volume, min_size)
    builder_mask,\* result of VolumeBuilder.compute_bone_mask(volume)
    norm_mask,   \* result of BoneSegmenter.segment((volume + 1024) / 4024)
    dz10,        \* axial spacing dz in tenths of a millimetre
    bone_mask,   \* bone mask handed to VertebraDetector.detect
    peaks,       \* indices scipy.signal.find_peaks returned to detect
    vertebrae,   \* the vertebra list: detect's result, enriched by classify
    is_trained,  \* VertebraClassifier._is_trained after construction
    self_level,  \* MeshGenerator.level, as a stored voxel value
    level_arg,   \* level argument of generate: <<>> for None, else <<value>>
    step_size,   \* MeshGenerator.step_size
    skimage_ok,  \* whether "from skimage.measure import ..." succeeds
    n_verts,     \* vertices marching_cubes extracted (0 if it returned none)
    mesh_result, \* outcome of generate: "None", "mesh", or the error raised
    preset_arg,  \* preset name handed to BoneSegmenter(...)
    entry,       \* operation under way: "from_volume", "from_dicom", "worker"
    fault,       \* the stage whose call raises in this run, or "none"
    yolo,        \* anomaly backend: "absent", "no_model" or "loaded"
    spacing_yx,  \* <<dy, dx>> in tenths of a millimetre
    progress_log,\* percentages delivered to the progress sink, in order
    stage_log,   \* <<"begin", stage>> and <<"end", stage>> events, in order
    signals,     \* terminal signals emitted: "finished" or "error", in order
    raised,      \* error that left the reconstruct call, or "none"
    mesh_vertices, \* stats['mesh_vertices'] of the reconstruction
    anomalies,   \* the anomaly list
    metrics,     \* the metrics QuantitativeAnalyzer.analyze returned
    stop_requested, \* ReconstructionWorker._stop_requested
    cb_state,    \* worker thread inside a guarded emit: "idle" or "passed"
    stop_mark,   \* <<>> before stop(), then <<Len(progress_log), Len(signals)>>
    decimate_ratio,    \* MeshGenerator.decimate_ratio, in hundredths
    smooth_iterations, \* MeshGenerator.smooth_iterations
    n_cells,     \* mesh.n_cells of the mesh handed to _postprocess
    classify_args, \* <<hu_mean in tenths, comp_ratio in thousandths>> for _classify
    rule_status, \* what _classify returned, or "none"
    is_running,  \* AnalysisWorker.is_running
    stopped_at,  \* <<>> before AnalysisWorker.stop(), then <<Len(stage_log), Len(signals)>>
    is_analysis_running, \* MainWindow.is_analysis_running
    analysis_worker, \* MainWindow.analysis_worker: number of the latest worker, 0 for none
    workers,     \* per worker started: its thread's state and its is_running flag
    ui_queue     \* signals queued for the main thread, in order

segVars == <<shape, volume, hu_low, hu_high, min_size, scipy_ok,
             seg_mask, clean_mask, builder_mask, norm_mask>>

detVars == <<dz10, bone_mask, peaks, vertebrae>>

clsVars == <<is_trained>>

meshVars == <<self_level, level_arg, step_size, skimage_ok, n_verts,
              mesh_result>>

runVars == <<preset_arg, entry, fault, yolo, spacing_yx, progress_log,
             stage_log, signals, raised, mesh_vertices, anomalies, metrics>>

stopVars == <<stop_requested, cb_state, stop_mark>>

postVars == <<decimate_ratio, smooth_iterations, n_cells>>

ruleVars == <<classify_args, rule_status>>

workerVars == <<is_running, stopped_at>>

uiVars == <<is_analysis_running, analysis_worker, workers, ui_queue>>

extVars == <<postVars, ruleVars, workerVars, uiVars>>

vars == <<pc, segVars, detVars, clsVars, meshVars, runVars, stopVars, extVars>>

(***************************************************************************)
(* Program constants                                                       *)
(***************************************************************************)
\* segmentation.py:52  norm_low = (self.hu_low + 1024) / 4024
HU_OFFSET == 1024
HU_SPAN == 4024
\* segmentation.py:47  if vmax > 10
RAW_MODE_MAX == 10

\* segmentation.py:26-31  PRESETS
PRESETS == [bone_cortical |-> <<700, 1900>>,
            bone_all      |-> <<200, 1900>>,
            bone_soft     |-> <<200, 700>>,
            spine         |-> <<200, 1600>>]

(***************************************************************************)
(* Bounds of the model                                                     *)
(***************************************************************************)
SegMaxZ == 2
SegMaxY == 3
SegMaxX == 4
SegMaxVoxels == 12
MaxMinSize == 3
WinVoxels == 3

(***************************************************************************)
(* Helpers                                                                 *)
(***************************************************************************)
Min2(a, b) == IF a <= b THEN a ELSE b
Max2(a, b) == IF a >= b THEN a ELSE b
Abs(a) == IF a >= 0 THEN a ELSE -a

SetMax(S) == CHOOSE m \in S : \A e \in S : e <= m
SetMin(S) == CHOOSE m \in S : \A e \in S : m <= e

\* A stored value of a density given in whole Hounsfield units.
HU(v) == v * HU_SPAN

\* The voxel index set of an array of the given shape, indexed (z, y, x).
Grid(sh) == (0 .. sh[1] - 1) \X (0 .. sh[2] - 1) \X (0 .. sh[3] - 1)

Values(vol) == {vol[p] : p \in DOMAIN vol}

\* Face adjacency: the structuring element scipy.ndimage uses by default
\* (generate_binary_structure(ndim, 1)) for label and binary_fill_holes.
Adjacent(p, q) == Abs(p[1] - q[1]) + Abs(p[2] - q[2]) + Abs(p[3] - q[3]) = 1

\* Everything of `allowed` reachable from `reached` through adjacent voxels.
RECURSIVE Reach(_, _)
Reach(reached, allowed) ==
    LET more == {q \in allowed \ reached : \E p \in reached : Adjacent(p, q)}
    IN  IF more = {} THEN reached ELSE Reach(reached \cup more, allowed)

(***************************************************************************)
(* BoneSegmenter.segment / VolumeBuilder.compute_bone_mask                 *)
(***************************************************************************)
\* The mode chosen by the observed value range (max - min) instead of max.
segment_by_range(vol, lo, hi) ==
    LET vmax == SetMax(Values(vol))
        vmin == SetMin(Values(vol))
    IN  IF vmax - vmin > HU(RAW_MODE_MAX)
        THEN {p \in DOMAIN vol : vol[p] >= HU(lo) /\ vol[p] <= HU(hi)}
        ELSE LET norm_low  == lo + HU_OFFSET
                 norm_high == Min2(hi + HU_OFFSET, HU_SPAN)
             IN  {p \in DOMAIN vol : vol[p] >= norm_low /\ vol[p] <= norm_high}

\* The normalized window computed without the -1024 offset of the scale.
segment_no_offset(vol, lo, hi) ==
    LET vmax == SetMax(Values(vol))
    IN  IF vmax > HU(RAW_MODE_MAX)
        THEN {p \in DOMAIN vol : vol[p] >= HU(lo) /\ vol[p] <= HU(hi)}
        ELSE LET norm_low  == lo
                 norm_high == Min2(hi, HU_SPAN)
             IN  {p \in DOMAIN vol : vol[p] >= norm_low /\ vol[p] <= norm_high}

\* segmentation.py:47-54: the mask of `vol` under the window [lo, hi].
\* Raw mode compares v with lo and hi; normalized mode compares v with
\* (lo + 1024) / 4024 and min((hi + 1024) / 4024, 1.0).
\* A threshold that forgets the lower end of the window.
segment_below_high(vol, lo, hi) ==
    {p \in DOMAIN vol : vol[p] <= HU(hi)}

segment(vol, lo, hi) ==
    LET vmax == SetMax(Values(vol))
    IN  IF vmax > HU(RAW_MODE_MAX)
        THEN {p \in DOMAIN vol : vol[p] >= HU(lo) /\ vol[p] <= HU(hi)}
        ELSE LET norm_low  == lo + HU_OFFSET
                 norm_high == Min2(hi + HU_OFFSET, HU_SPAN)
             IN  {p \in DOMAIN vol : vol[p] >= norm_low /\ vol[p] <= norm_high}

\* volume_builder.py:103-114: the same test, written a second time there.
compute_bone_mask(vol, lo, hi) ==
    LET vmax == SetMax(Values(vol))
    IN  IF vmax > HU(RAW_MODE_MAX)
        THEN {p \in DOMAIN vol : vol[p] >= HU(lo) /\ vol[p] <= HU(hi)}
        ELSE LET norm_low  == lo + HU_OFFSET
                 norm_high == Min2(hi + HU_OFFSET, HU_SPAN)
             IN  {p \in DOMAIN vol : vol[p] >= norm_low /\ vol[p] <= norm_high}

\* The rescaling of a volume of whole Hounsfield units to [0,1]:
\* v' = (v + 1024) / 4024, stored as v' * 4024 = v + 1024.
Rescale(vol) == [p \in DOMAIN vol |-> (vol[p] \div HU_SPAN) + HU_OFFSET]

WholeHU(vol) == \A p \in DOMAIN vol : vol[p] % HU_SPAN = 0

(***************************************************************************)
(* BoneSegmenter.segment_with_cleanup                                      *)
(***************************************************************************)
\* A flood of the background started from the first corner only.
FillSliceFromCorner(mask, sh, z) ==
    LET slice  == {p \in Grid(sh) : p[1] = z}
        bg     == slice \ mask
        corner == {p \in bg : p[2] = 0 /\ p[3] = 0}
        outside == Reach(corner, bg)
    IN  slice \ outside

\* scipy.ndimage.binary_fill_holes on slice z (segmentation.py:76-77): the
\* background of the slice is flooded from outside the image through
\* face-adjacent background pixels; what the flood does not reach is filled.
FillSlice(mask, sh, z) ==
    LET slice  == {p \in Grid(sh) : p[1] = z}
        bg     == slice \ mask
        border == {p \in bg : \/ p[2] = 0 \/ p[2] = sh[2] - 1
                              \/ p[3] = 0 \/ p[3] = sh[3] - 1}
        outside == Reach(border, bg)
    IN  slice \ outside

FillHoles(mask, sh) == UNION {FillSlice(mask, sh, z) : z \in 0 .. sh[1] - 1}

\* scipy.ndimage.label (segmentation.py:80): the connected components of the
\* mask under face adjacency, as a set of voxel sets.
RECURSIVE Components(_)
Components(mask) ==
    IF mask = {} THEN {}
    ELSE LET seed == CHOOSE p \in mask : TRUE
             comp == Reach({seed}, mask)
         IN  {comp} \cup Components(mask \ comp)

\* The policy the cleanup is documented not to follow: only the largest
\* component survives.
KeepLargest(mask, msize) ==
    LET comps == Components(mask)
    IN  IF Cardinality(comps) > 1
        THEN CHOOSE c \in comps : \A d \in comps : Cardinality(d) <= Cardinality(c)
        ELSE mask

\* The size test written with > instead of >=.
KeepLargeStrict(mask, msize) ==
    LET comps == Components(mask)
    IN  IF Cardinality(comps) > 1
        THEN UNION {c \in comps : Cardinality(c) > msize}
        ELSE mask

\* segmentation.py:79-95: with more than one component, keep those of at
\* least min_size voxels; with one component or none the mask is left as is.
KeepLarge(mask, msize) ==
    LET comps == Components(mask)
    IN  IF Cardinality(comps) > 1
        THEN UNION {c \in comps : Cardinality(c) >= msize}
        ELSE mask

\* segmentation.py:61-100.  Without scipy (ImportError) the threshold mask
\* is returned untouched.
segment_with_cleanup(vol, sh, lo, hi, msize, scipy) ==
    LET mask == segment(vol, lo, hi)
    IN  IF scipy THEN KeepLarge(FillHoles(mask, sh), msize) ELSE mask

(***************************************************************************)
(* Operations on the segmenter                                             *)
(***************************************************************************)
Segment ==
    /\ pc = "input"
    /\ seg_mask' = segment(volume, hu_low, hu_high)
    /\ pc' = "segmented"
    /\ UNCHANGED <<shape, volume, hu_low, hu_high, min_size, scipy_ok,
                   clean_mask, builder_mask, norm_mask>>
    /\ UNCHANGED <<detVars, clsVars, meshVars, runVars, stopVars, extVars>>

SegmentWithCleanup ==
    /\ pc = "segmented"
    /\ clean_mask' = segment_with_cleanup(volume, shape, hu_low, hu_high,
                                          min_size, scipy_ok)
    /\ pc' = "cleaned"
    /\ UNCHANGED <<shape, volume, hu_low, hu_high, min_size, scipy_ok,
                   seg_mask, builder_mask, norm_mask>>
    /\ UNCHANGED <<detVars, clsVars, meshVars, runVars, stopVars, extVars>>

ComputeBoneMask ==
    /\ pc = "segmented"
    /\ builder_mask' = compute_bone_mask(volume, hu_low, hu_high)
    /\ pc' = "masked"
    /\ UNCHANGED <<shape, volume, hu_low, hu_high, min_size, scipy_ok,
                   seg_mask, clean_mask, norm_mask>>
    /\ UNCHANGED <<detVars, clsVars, meshVars, runVars, stopVars, extVars>>

\* The same segmenter applied to the volume rescaled to [0,1].
SegmentRescaled ==
    /\ pc = "masked"
    /\ WholeHU(volume)
    /\ norm_mask' = segment(Rescale(volume), hu_low, hu_high)
    /\ pc' = "rescaled"
    /\ UNCHANGED <<shape, volume, hu_low, hu_high, min_size, scipy_ok,
                   seg_mask, clean_mask, builder_mask>>
    /\ UNCHANGED <<detVars, clsVars, meshVars, runVars, stopVars, extVars>>

\* The state of the components an exercise does not use.
DetIdle == dz10 = 10 /\ bone_mask = {} /\ peaks = {} /\ vertebrae = <<>>

ClsIdle == is_trained = FALSE

DEFAULT_LEVEL == 2012

DEFAULT_STEP_SIZE == 2

RunIdle ==
    /\ preset_arg = "spine"
    /\ entry = "none"
    /\ fault = "none"
    /\ yolo = "absent"
    /\ spacing_yx = <<10, 10>>
    /\ progress_log = <<>>
    /\ stage_log = <<>>
    /\ signals = <<>>
    /\ raised = "none"
    /\ mesh_vertices = 0
    /\ anomalies = <<>>
    /\ metrics = <<>>

StopIdle ==
    /\ stop_requested = FALSE
    /\ cb_state = "idle"
    /\ stop_mark = <<>>

\* mesh_generator.py:25-26: post-processing parameters at their defaults, no
\* mesh in hand.
PostIdle ==
    /\ decimate_ratio = 30
    /\ smooth_iterations = 20
    /\ n_cells = 0

RuleIdle ==
    /\ classify_args = <<>>
    /\ rule_status = "none"

\* analysis_worker.py:30: is_running = False.
WorkerIdle ==
    /\ is_running = FALSE
    /\ stopped_at = <<>>

\* main_window.py:62: no analysis under way.
UiIdle ==
    /\ is_analysis_running = FALSE
    /\ analysis_worker = 0
    /\ workers = <<>>
    /\ ui_queue = <<>>

ExtIdle == PostIdle /\ RuleIdle /\ WorkerIdle /\ UiIdle

MeshIdle ==
    /\ self_level = DEFAULT_LEVEL
    /\ level_arg = <<>>
    /\ step_size = DEFAULT_STEP_SIZE
    /\ skimage_ok = TRUE
    /\ n_verts = 0
    /\ mesh_result = "pending"

(***************************************************************************)
(* Cleanup: volumes of two densities (background -400 HU, bone 700 HU, the *)
(* phantom of tests/test_ai_models.py) on every small grid.                *)
(***************************************************************************)
SegShapes ==
    {sh \in (1 .. SegMaxZ) \X (1 .. SegMaxY) \X (1 .. SegMaxX) :
        sh[1] * sh[2] * sh[3] <= SegMaxVoxels}

SegValues == {HU(-400), HU(700)}

InitCleanup ==
    /\ pc = "input"
    /\ shape \in SegShapes
    /\ volume \in [Grid(shape) -> SegValues]
    /\ hu_low = PRESETS.spine[1]
    /\ hu_high = PRESETS.spine[2]
    /\ min_size \in 0 .. MaxMinSize
    /\ scipy_ok \in BOOLEAN
    /\ seg_mask = {}
    /\ clean_mask = {}
    /\ builder_mask = {}
    /\ norm_mask = {}
    /\ DetIdle
    /\ ClsIdle
    /\ MeshIdle
    /\ RunIdle
    /\ StopIdle
    /\ ExtIdle

NextCleanup == Segment \/ SegmentWithCleanup

SpecCleanup == InitCleanup /\ [][NextCleanup]_vars

(***************************************************************************)
(* Properties of the cleanup                                               *)
(***************************************************************************)
\* The background voxels of a mask that are enclosed by bone within their
\* own slice: no face-connected background path of the slice leads from
\* them to the edge of the slice.
OnEdge(p, sh) ==
    \/ p[2] = 0 \/ p[2] = sh[2] - 1 \/ p[3] = 0 \/ p[3] = sh[3] - 1

HoleVoxels(mask, sh) ==
    {p \in Grid(sh) \ mask :
        \A q \in Reach({p}, {r \in Grid(sh) \ mask : r[1] = p[1]}) : ~OnEdge(q, sh)}

\* What the cleanup starts from: the threshold mask with its holes filled
\* (with scipy), the threshold mask itself (without).
Filled == IF scipy_ok THEN seg_mask \cup HoleVoxels(seg_mask, shape) ELSE seg_mask

\* C1 as stated: segment_with_cleanup never has more true voxels than segment.
C1_CleanupNeverGrows ==
    pc = "cleaned" => Cardinality(clean_mask) <= Cardinality(seg_mask)

\* C1 amended: segment_with_cleanup has at most the true voxels of segment
\* plus the hole voxels it filled; whatever it adds to the mask of segment
\* is a hole voxel, and a mask without holes never grows.
C1_CleanupGrowsOnlyByHoles ==
    pc = "cleaned" =>
        /\ clean_mask \ seg_mask \subseteq HoleVoxels(seg_mask, shape)
        /\ Cardinality(clean_mask) <=
               Cardinality(seg_mask) + Cardinality(HoleVoxels(seg_mask, shape))
        /\ (HoleVoxels(seg_mask, shape) = {} =>
               Cardinality(clean_mask) <= Cardinality(seg_mask))

\* C1 witness: a cleanup that both filled a hole and dropped a component.
C1_Witness ==
    /\ pc = "cleaned"
    /\ clean_mask \ seg_mask # {}
    /\ seg_mask \ clean_mask # {}

\* C2 as stated: with min_size = 0 the cleanup returns the mask of segment.
C2_ZeroMinSizeIsSegment ==
    (pc = "cleaned" /\ min_size = 0) => clean_mask = seg_mask

\* C2 amended: with min_size = 0 the cleanup returns the mask of segment
\* with its per-slice holes filled, and nothing else changed.
C2_ZeroMinSizeIsFilledSegment ==
    (pc = "cleaned" /\ min_size = 0) => clean_mask = Filled

\* C2 witness: min_size = 0 on a mask with a hole and several components.
C2_Witness ==
    /\ pc = "cleaned"
    /\ min_size = 0
    /\ scipy_ok
    /\ HoleVoxels(seg_mask, shape) # {}
    /\ \E p, q \in clean_mask : q \notin Reach({p}, clean_mask)

\* C3: every connected component of the hole-filled threshold mask with at
\* least min_size voxels lies entirely in the mask the cleanup returns.
C3_LargeComponentsKept ==
    (pc = "cleaned" /\ scipy_ok) =>
        \A c \in Components(Filled) :
            Cardinality(c) >= min_size => c \subseteq clean_mask

\* C3 witness: two separate components of at least min_size voxels are both
\* kept while a smaller one is dropped.
C3_Witness ==
    /\ pc = "cleaned"
    /\ scipy_ok
    /\ Filled \ clean_mask # {}
    /\ \E c, d \in Components(Filled) :
          /\ c # d
          /\ Cardinality(c) >= min_size
          /\ Cardinality(d) >= min_size
          /\ c \cup d \subseteq clean_mask

(***************************************************************************)
(* Density window: a row of voxels whose values are drawn from densities   *)
(* around every threshold of the code, in Hounsfield units and in [0,1].   *)
(***************************************************************************)
WinValues ==
    {HU(-1024), HU(1), HU(10), HU(11), HU(199), HU(200), HU(700),
     HU(1600), HU(1601), HU(1900), HU(3000)}
    \cup {1223, 1224, 2012, 2624, 2625}

Windows == {PRESETS.bone_cortical, PRESETS.bone_all, PRESETS.bone_soft, PRESETS.spine}

InitWindow ==
    /\ pc = "input"
    /\ shape = <<1, 1, WinVoxels>>
    /\ volume \in [Grid(shape) -> WinValues]
    /\ \E w \in Windows : hu_low = w[1] /\ hu_high = w[2]
    /\ min_size = 0
    /\ scipy_ok = TRUE
    /\ seg_mask = {}
    /\ clean_mask = {}
    /\ builder_mask = {}
    /\ norm_mask = {}
    /\ DetIdle
    /\ ClsIdle
    /\ MeshIdle
    /\ RunIdle
    /\ StopIdle
    /\ ExtIdle

NextWindow == Segment \/ ComputeBoneMask \/ SegmentRescaled

SpecWindow == InitWindow /\ [][NextWindow]_vars

VMax == SetMax(Values(volume))
VMin == SetMin(Values(volume))

\* The window applied to the values as they are (raw density mode).
InRawWindow(p) == volume[p] >= hu_low * HU_SPAN /\ volume[p] <= hu_high * HU_SPAN

\* The window rescaled as (hu + 1024) / 4024 (normalized mode), and the same
\* with its upper end capped at 1.0.
InNormWindow(p) ==
    volume[p] >= hu_low + HU_OFFSET /\ volume[p] <= hu_high + HU_OFFSET

InCappedNormWindow(p) == InNormWindow(p) /\ volume[p] <= HU_SPAN

\* C4 as stated: both functions use the raw window exactly when the value
\* range max - min of the volume exceeds 10, else the rescaled window.
C4_ModeByRange ==
    pc \in {"masked", "rescaled"} =>
        \A p \in Grid(shape) :
            LET bone == IF VMax - VMin > RAW_MODE_MAX * HU_SPAN
                        THEN InRawWindow(p) ELSE InNormWindow(p)
            IN  (p \in seg_mask <=> bone) /\ (p \in builder_mask <=> bone)

\* C4 amended: both functions use the raw window exactly when the maximum
\* value of the volume exceeds 10, else the window rescaled as
\* (hu + 1024) / 4024 with its upper end capped at 1.0; a volume whose values
\* span a range above 10 but whose maximum is <= 10 is taken as normalized.
C4_ModeByMax ==
    pc \in {"masked", "rescaled"} =>
        \A p \in Grid(shape) :
            LET bone == IF VMax > RAW_MODE_MAX * HU_SPAN
                        THEN InRawWindow(p) ELSE InCappedNormWindow(p)
            IN  (p \in seg_mask <=> bone) /\ (p \in builder_mask <=> bone)

\* C4 witness: a range above 10 with a maximum of at most 10, where the
\* normalized window marks a voxel the raw window would not.
C4_Witness ==
    /\ pc = "masked"
    /\ VMax - VMin > RAW_MODE_MAX * HU_SPAN
    /\ VMax <= RAW_MODE_MAX * HU_SPAN
    /\ \E p \in seg_mask : ~InRawWindow(p)
    /\ seg_mask = builder_mask

\* The volumes C5 speaks of: whole densities in [-1024, 3000] that attain
\* both extremes, under the window [200, 1600].
C5_Case ==
    /\ hu_low = 200
    /\ hu_high = 1600
    /\ VMin = HU(-1024)
    /\ VMax = HU(3000)

\* C5: for the window [200, 1600] and a volume with values in [-1024, 3000]
\* attaining both extremes, segment marks the same voxels in the volume and
\* in the volume rescaled to [0,1], so the bone fractions are equal.
C5_RescaledSameMask ==
    (pc = "rescaled" /\ C5_Case) =>
        /\ norm_mask = seg_mask
        /\ Cardinality(norm_mask) * 100 = Cardinality(seg_mask) * 100

\* C5 witness: such a volume with a voxel exactly on an end of the window,
\* marked in the volume and in the rescaled volume.
C5_Witness ==
    /\ pc = "rescaled"
    /\ C5_Case
    /\ \E p \in norm_mask \cap seg_mask : volume[p] \in {HU(200), HU(1600)}

(***************************************************************************)
(* VertebraDetector                                                        *)
(*                                                                         *)
(* Stored units of a vertebra record: height_mm and hu_mean, hu_std in     *)
(* tenths, bone_fraction in hundredths of a percent, compression_ratio in  *)
(* thousandths; centroid_px as the numerators z, y, x over a common den.   *)
(* Densities handed to the detector are whole Hounsfield units.            *)
(***************************************************************************)
\* vertebra_detector.py:42  min_vertebra_slices: int = 3
MIN_VERTEBRA_SLICES == 3
\* vertebra_detector.py:84  if profile.max() < 10
PROFILE_NOISE_FLOOR == 10
\* vertebra_detector.py:97  min_distance = max(3, int(5 / dz))
MIN_PEAK_DISTANCE == 3
MIN_PEAK_MM == 5

\* vertebra_detector.py:23-25
ALL_LABELS == <<"S1", "L5", "L4", "L3", "L2", "L1",
                "T12", "T11", "T10", "T9", "T8", "T7",
                "T6", "T5", "T4", "T3", "T2", "T1">>

\* Bounds of the detector's inputs.
DetFreeNz == 10
DetMaxY == 4
DetNX == 5
DetMaxVertebrae == 19

\* The sum of f over S, taken value by value: each value times the number
\* of elements that have it.
RECURSIVE WeightedSum(_, _, _)
WeightedSum(vals, f, S) ==
    IF vals = {} THEN 0
    ELSE LET v == CHOOSE v \in vals : TRUE
         IN  v * Cardinality({e \in S : f[e] = v}) + WeightedSum(vals \ {v}, f, S)

SumOver(f, S) == WeightedSum({f[e] : e \in S}, f, S)

\* round(num / den) to the nearest integer, ties to even (Python's round).
RoundDiv(num, den) ==
    LET q == num \div den
        r == num - q * den
    IN  IF 2 * r < den THEN q
        ELSE IF 2 * r > den THEN q + 1
        ELSE IF q % 2 = 0 THEN q ELSE q + 1

\* round(sqrt(q) / c): the integer r with (2r - 1) c <= 2 sqrt(q) < (2r + 1) c.
RECURSIVE RoundSqrtDiv(_, _, _)
RoundSqrtDiv(q, c, r) ==
    IF 4 * q < (2 * r + 1) * (2 * r + 1) * c * c THEN r
    ELSE RoundSqrtDiv(q, c, r + 1)

\* Python slices seq[from:] and seq[:n], 0-based.
SliceFrom(seq, from) == SubSeq(seq, from + 1, Len(seq))
SliceTo(seq, n) == SubSeq(seq, 1, Min2(n, Len(seq)))

IndexOf(seq, e) == (CHOOSE i \in 1 .. Len(seq) : seq[i] = e) - 1

\* vertebra_detector.py:83: bone voxels per slice.
Profile(mask, sh) ==
    [z \in 0 .. sh[1] - 1 |-> Cardinality({p \in mask : p[1] = z})]

\* vertebra_detector.py:97.
MinDistance(dz) == Max2(MIN_PEAK_DISTANCE, (MIN_PEAK_MM * 10) \div dz)

\* What scipy.signal.find_peaks(inverted, prominence, distance) can return
\* (vertebra_detector.py:98-102): interior indices of the profile, pairwise
\* at least `distance` apart.  Which of them it returns depends on the
\* smoothed floating-point profile and is left open.
ValidPeaks(pk, nz, distance) ==
    /\ pk \subseteq 1 .. nz - 2
    /\ \A a, b \in pk : a # b => Abs(a - b) >= distance

\* Evenly spaced peaks: a disc every `gap` slices.
Comb(nz, gap) == {i \in 1 .. nz - 2 : i % gap = 0}

PeakChoices(nz, distance) ==
    IF nz <= DetFreeNz
    THEN {pk \in SUBSET (1 .. nz - 2) : ValidPeaks(pk, nz, distance)}
    ELSE {{}} \cup {Comb(nz, g) : g \in distance .. distance + 2}

\* sorted([0] + list(peaks) + [nz - 1]) (vertebra_detector.py:105).
RECURSIVE SortedSeq(_)
SortedSeq(S) ==
    IF S = {} THEN <<>>
    ELSE LET m == SetMin(S) IN <<m>> \o SortedSeq(S \ {m})

Boundaries(pk, nz) == SortedSeq({0}) \o SortedSeq(pk) \o SortedSeq({nz - 1})

\* vertebra_detector.py:108-113: consecutive boundary pairs of at least
\* min_vertebra_slices slices.
RECURSIVE RawSegments(_, _)
RawSegments(b, i) ==
    IF i >= Len(b) THEN <<>>
    ELSE IF b[i + 1] - b[i] < MIN_VERTEBRA_SLICES
         THEN RawSegments(b, i + 1)
         ELSE <<<<b[i], b[i + 1]>>>> \o RawSegments(b, i + 1)

\* Segments taken between a boundary and the one after next, so that
\* neighbouring ranges overlap.
RECURSIVE RawSegmentsOverlapping(_, _)
RawSegmentsOverlapping(b, i) ==
    IF i >= Len(b) THEN <<>>
    ELSE LET j == Min2(i + 2, Len(b))
         IN  IF b[j] - b[i] < MIN_VERTEBRA_SLICES
             THEN RawSegmentsOverlapping(b, i + 1)
             ELSE <<<<b[i], b[j]>>>> \o RawSegmentsOverlapping(b, i + 1)

SegmentsOverlapping(pk, nz) == RawSegmentsOverlapping(Boundaries(pk, nz), 1)

\* vertebra_detector.py:104-113.
Segments(pk, nz) == RawSegments(Boundaries(pk, nz), 1)

\* A synthetic pool that stops at the length of the anatomical one.
assign_labels_short(n) ==
    IF n <= Len(ALL_LABELS)
    THEN IF n <= 6 THEN SliceTo(SliceFrom(ALL_LABELS, 1), n)
                   ELSE SliceTo(ALL_LABELS, n)
    ELSE [i \in 1 .. Len(ALL_LABELS) |-> "V" \o ToString(i)]

\* An assignment that starts at the sacrum whatever the count.
assign_labels_from_sacrum(n) ==
    IF n <= Len(ALL_LABELS) THEN SliceTo(ALL_LABELS, n)
    ELSE [i \in 1 .. n |-> "V" \o ToString(i)]

\* vertebra_detector.py:140-151.
assign_labels(n) ==
    IF n <= Len(ALL_LABELS)
    THEN IF n <= 6
         THEN LET start == IndexOf(ALL_LABELS, "L5")
                  pool  == SliceFrom(ALL_LABELS, start)
              IN  IF Len(pool) >= n THEN SliceTo(pool, n) ELSE SliceTo(ALL_LABELS, n)
         ELSE SliceTo(ALL_LABELS, n)
    ELSE [i \in 1 .. n |-> "V" \o ToString(i)]

\* A rule whose first threshold is inclusive: a ratio of exactly 0.7 counts
\* as compressed.
classify_rule_inclusive(hu_sum, hu_cnt, num, den) ==
    IF 10 * num <= 7 * den THEN "comprimée"
    ELSE IF (IF hu_cnt = 0 THEN TRUE ELSE hu_sum < 150 * hu_cnt) THEN "ostéopénique"
    ELSE IF 4 * Abs(num - den) > den THEN "suspect"
    ELSE "normal"

\* vertebra_detector.py:206-214, on the ratio num / den and the mean
\* hu_sum / hu_cnt (0.0 when hu_cnt = 0).
classify_rule(hu_sum, hu_cnt, num, den) ==
    IF 10 * num < 7 * den THEN "comprimée"
    ELSE IF (IF hu_cnt = 0 THEN TRUE ELSE hu_sum < 150 * hu_cnt) THEN "ostéopénique"
    ELSE IF 4 * Abs(num - den) > den THEN "suspect"
    ELSE "normal"

\* vertebra_detector.py:153-204.
compute_metrics(z0, z1, label, mask, vol, sh, dz) ==
    LET ny == sh[2]
        nx == sh[3]
        region == {p \in mask : p[1] >= z0 /\ p[1] < z1}
        cnt == Cardinality(region)
        hu == [p \in region |-> vol[p] \div HU_SPAN]
        hu_sum == SumOver(hu, region)
        base == IF cnt = 0 THEN 0 ELSE SetMin({hu[p] : p \in region})
        dev == [p \in region |-> hu[p] - base]
        dev2 == [p \in region |-> (hu[p] - base) * (hu[p] - base)]
        s1 == SumOver(dev, region)
        s2 == SumOver(dev2, region)
        ny_half == ny \div 2
        ant == Cardinality({p \in region : p[2] < ny_half})
        post == Cardinality({p \in region : p[2] >= ny_half})
        d == Max2((z1 - z0) * nx, 1)
        \* comp_ratio = (ant / d) / max(post / d, 0.001) = num / den
        num == 1000 * ant
        den == Max2(1000 * post, d)
        centroid ==
            IF cnt > 0
            THEN [den |-> cnt,
                  z |-> SumOver([p \in region |-> p[1]], region),
                  y |-> SumOver([p \in region |-> p[2]], region),
                  x |-> SumOver([p \in region |-> p[3]], region)]
            ELSE [den |-> 2, z |-> z0 + z1, y |-> ny, x |-> nx]
    IN  [label |-> label,
         z_start |-> z0,
         z_end |-> z1,
         height_mm |-> (z1 - z0) * dz,
         centroid_px |-> centroid,
         hu_mean |-> IF cnt > 0 THEN RoundDiv(10 * hu_sum, cnt) ELSE 0,
         hu_std |-> IF cnt > 0
                    THEN RoundSqrtDiv(100 * (cnt * s2 - s1 * s1), cnt, 0) ELSE 0,
         bone_fraction |-> RoundDiv(10000 * cnt, (z1 - z0) * ny * nx),
         compression_ratio |-> RoundDiv(1000 * num, den),
         status |-> classify_rule(hu_sum, cnt, num, den)]

\* vertebra_detector.py:79-134, given the peaks find_peaks returned.
detect(mask, vol, sh, dz, pk) ==
    LET nz == sh[1]
        profile == Profile(mask, sh)
    IN  IF SetMax({profile[z] : z \in 0 .. nz - 1}) < PROFILE_NOISE_FLOOR
        THEN <<>>
        ELSE LET raw == Segments(pk, nz)
                 n == Len(raw)
                 labels == assign_labels(n)
             IN  [i \in 1 .. Min2(n, Len(labels)) |->
                     compute_metrics(raw[i][1], raw[i][2], labels[i],
                                     mask, vol, sh, dz)]

Detect ==
    /\ pc = "input"
    /\ \E pk \in PeakChoices(shape[1], MinDistance(dz10)) :
          /\ peaks' = pk
          /\ vertebrae' = detect(bone_mask, volume, shape, dz10, pk)
    /\ pc' = "detected"
    /\ UNCHANGED <<segVars, dz10, bone_mask, clsVars, meshVars, runVars, stopVars, extVars>>

(***************************************************************************)
(* VertebraClassifier                                                      *)
(***************************************************************************)
\* vertebra_classifier.py:38-44
CLASS_NAMES == <<"normal", "ostéopénique", "suspect", "comprimée">>

CLASS_COLORS == [s \in {"normal", "ostéopénique", "suspect", "comprimée"} |->
                    CASE s = "normal" -> "#4CAF50"
                      [] s = "ostéopénique" -> "#FF9800"
                      [] s = "suspect" -> "#F44336"
                      [] s = "comprimée" -> "#9C27B0"]

\* vertebra_classifier.py:110  conf = 0.7, in thousandths
FALLBACK_CONF == 700

\* vertebra_classifier.py:94-100: the feature vector of a vertebra.
Features(v) ==
    <<v.hu_mean, v.hu_std, v.height_mm, v.compression_ratio, v.bone_fraction>>

\* What the fitted pipeline can answer for one feature vector
\* (vertebra_classifier.py:103-106): a class of the training labels 0..3 and
\* that class's probability, in thousandths.  The forest itself is not
\* modelled: its answer is any such pair, the same for equal features.
Classes == 0 .. 3
Probas == {335, 1000}

Oracles(vs) ==
    [{Features(vs[i]) : i \in 1 .. Len(vs)} -> Classes \X Probas]

\* One iteration that also writes the predicted status over the rule-based one.
classify_one_overwriting(v, trained, oracle) ==
    LET ml == IF trained THEN CLASS_NAMES[oracle[Features(v)][1] + 1]
              ELSE v.status
        conf == IF trained THEN oracle[Features(v)][2] ELSE FALLBACK_CONF
    IN  [ml_status |-> ml, confidence |-> RoundDiv(conf, 10),
         color |-> CLASS_COLORS[ml], status |-> ml] @@ v

\* A fallback that ignores the rule-based status.
classify_one_blind(v, trained, oracle) ==
    LET ml == IF trained THEN CLASS_NAMES[oracle[Features(v)][1] + 1]
              ELSE "normal"
        conf == IF trained THEN oracle[Features(v)][2] ELSE FALLBACK_CONF
    IN  [ml_status |-> ml, confidence |-> RoundDiv(conf, 10),
         color |-> CLASS_COLORS[ml]] @@ v

\* vertebra_classifier.py:93-114: one iteration of the loop of classify.
classify_one(v, trained, oracle) ==
    LET ml == IF trained
              THEN LET pred == oracle[Features(v)][1]
                   IN  IF pred \in 0 .. 3 THEN CLASS_NAMES[pred + 1] ELSE "unknown"
              ELSE IF "status" \in DOMAIN v THEN v.status ELSE "normal"
        conf == IF trained THEN oracle[Features(v)][2] ELSE FALLBACK_CONF
    IN  [ml_status |-> ml,
         confidence |-> RoundDiv(conf, 10),
         color |-> IF ml \in DOMAIN CLASS_COLORS THEN CLASS_COLORS[ml] ELSE "#AAAAAA"]
        @@ v

\* vertebra_classifier.py:81-116.
classify(vs, trained, oracle) ==
    [i \in 1 .. Len(vs) |-> classify_one(vs[i], trained, oracle)]

Classify ==
    /\ pc = "detected"
    /\ IF is_trained
       THEN \E oracle \in Oracles(vertebrae) :
               vertebrae' = classify(vertebrae, TRUE, oracle)
       ELSE vertebrae' = classify(vertebrae, FALSE, <<>>)
    /\ pc' = "classified"
    /\ UNCHANGED <<segVars, dz10, bone_mask, peaks, clsVars, meshVars, runVars, stopVars, extVars>>

(***************************************************************************)
(* Detection and classification: slab phantoms.  Bone fills a set of rows  *)
(* of the secondary axis through the whole volume, at one density; short   *)
(* volumes take every peak set find_peaks may return, long ones evenly     *)
(* spaced peaks.                                                           *)
(***************************************************************************)
DetShapes ==
    {<<nz, ny, DetNX>> : nz \in 1 .. DetFreeNz, ny \in 2 .. DetMaxY}
    \cup {<<MIN_VERTEBRA_SLICES * k + 1, 2, DetNX>> : k \in 7 .. DetMaxVertebrae}

\* Densities of the bone voxels: inside the window, and below it (a filled hole).
BoneHUs == {100, 700}

\* dz = 0.5, 1.0 and 2.5 mm.
DzChoices == {5, 10, 25}

\* vertebra_detector.py:210  if hu_mean < 150
GradedHU == 150

\* Volumes up to this many slices also come with graded bone.
DetGradedNz == 4

\* Bone at one density throughout, or, in short volumes, bone at the density
\* threshold of the rule with one voxel of the first slice a unit below it.
DetVolumes(sh, mask) ==
    {[p \in Grid(sh) |-> IF p \in mask THEN HU(b) ELSE HU(-400)] : b \in BoneHUs}
    \cup (IF sh[1] <= DetGradedNz /\ mask # {}
          THEN {[p \in Grid(sh) |->
                   IF p \notin mask THEN HU(-400)
                   ELSE IF p[1] = 0 /\ p[3] = 0 /\ p[2] = SetMin({q[2] : q \in mask})
                        THEN HU(GradedHU - 1)
                        ELSE HU(GradedHU)]}
          ELSE {})

InitDetect ==
    /\ pc = "input"
    /\ shape \in DetShapes
    /\ \E rows \in SUBSET (0 .. shape[2] - 1) :
          bone_mask = {p \in Grid(shape) : p[2] \in rows}
    /\ volume \in DetVolumes(shape, bone_mask)
    /\ dz10 \in DzChoices
    /\ is_trained \in BOOLEAN
    /\ peaks = {}
    /\ vertebrae = <<>>
    /\ hu_low = PRESETS.spine[1]
    /\ hu_high = PRESETS.spine[2]
    /\ min_size = 0
    /\ scipy_ok = TRUE
    /\ seg_mask = {}
    /\ clean_mask = {}
    /\ builder_mask = {}
    /\ norm_mask = {}
    /\ MeshIdle
    /\ RunIdle
    /\ StopIdle
    /\ ExtIdle

NextDetect == Detect \/ Classify

SpecDetect == InitDetect /\ [][NextDetect]_vars

(***************************************************************************)
(* Properties of detection and classification                              *)
(***************************************************************************)
Detected == pc \in {"detected", "classified"}

\* C6: every vertebra of the list detect returns has z_start < z_end, and
\* consecutive vertebrae have z_start[i] <= z_start[i+1] and
\* z_end[i] <= z_start[i+1]: no two half-open ranges overlap.
C6_RangesOrdered ==
    Detected =>
        /\ \A i \in 1 .. Len(vertebrae) : vertebrae[i].z_start < vertebrae[i].z_end
        /\ \A i \in 1 .. Len(vertebrae) - 1 :
              /\ vertebrae[i].z_start <= vertebrae[i + 1].z_start
              /\ vertebrae[i].z_end <= vertebrae[i + 1].z_start

\* C6 witness: a list of several vertebrae found between detected peaks,
\* with the short candidate before the first peak discarded.
C6_Witness ==
    /\ pc = "detected"
    /\ Len(vertebrae) >= 2
    /\ Cardinality(peaks) >= 2
    /\ vertebrae[1].z_start > 0

\* The candidate segments detect retains, counted from the peaks alone: the
\* boundaries 0, peaks, nz - 1 whose next boundary lies at least
\* min_vertebra_slices further.
BoundarySet == peaks \cup {0, shape[1] - 1}

RetainedCount ==
    Cardinality({a \in BoundarySet :
        \E b \in BoundarySet :
            /\ b - a >= MIN_VERTEBRA_SLICES
            /\ \A c \in BoundarySet : ~(a < c /\ c < b)})

ProfileAboveFloor ==
    \E z \in 0 .. shape[1] - 1 :
        Cardinality({p \in bone_mask : p[1] = z}) >= PROFILE_NOISE_FLOOR

\* C7: in the list returned by one call of detect no two vertebrae carry the
\* same label, and there are as many labelled vertebrae as retained segments.
C7_LabelsUnique ==
    Detected =>
        /\ \A i, j \in 1 .. Len(vertebrae) :
              i # j => vertebrae[i].label # vertebrae[j].label
        /\ (ProfileAboveFloor => Len(vertebrae) = RetainedCount)
        /\ (~ProfileAboveFloor => Len(vertebrae) = 0)

\* C7 witness: more retained segments than the anatomical pool has labels.
C7_Witness ==
    /\ pc = "detected"
    /\ Len(vertebrae) > Len(ALL_LABELS)
    /\ vertebrae[Len(vertebrae)].label = "V" \o ToString(Len(vertebrae))

Statuses == {"normal", "ostéopénique", "suspect", "comprimée"}

\* C8: with an untrained classifier, classify gives every vertebra of a list
\* produced by detect an ml_status equal to its rule-based status, one of
\* the four statuses, with the constant confidence 0.7.
C8_FallbackUsesRuleStatus ==
    (pc = "classified" /\ ~is_trained) =>
        \A i \in 1 .. Len(vertebrae) :
            /\ vertebrae[i].ml_status = vertebrae[i].status
            /\ vertebrae[i].ml_status \in Statuses
            /\ vertebrae[i].confidence = 70

\* C8 witness: a fallback classification of several vertebrae whose
\* rule-based status is not the default.
C8_Witness ==
    /\ pc = "classified"
    /\ ~is_trained
    /\ Len(vertebrae) >= 2
    /\ vertebrae[1].ml_status = "comprimée"

DetectorKeys ==
    {"label", "z_start", "z_end", "height_mm", "centroid_px", "hu_mean",
     "hu_std", "bone_fraction", "compression_ratio", "status"}

ClassifierKeys == {"ml_status", "confidence", "color"}

\* C9: classify returns the list with the same length and order; on each
\* vertebra it only adds or overwrites ml_status, confidence and color and
\* leaves the ten fields detect wrote unchanged, trained or not.
C9_ClassifyFrame ==
    [][pc' = "classified" =>
        /\ Len(vertebrae') = Len(vertebrae)
        /\ \A i \in 1 .. Len(vertebrae) :
              /\ DOMAIN vertebrae'[i] = DOMAIN vertebrae[i] \cup ClassifierKeys
              /\ \A k \in DetectorKeys : vertebrae'[i][k] = vertebrae[i][k]]_vars

\* C9 witness: a trained classification of several vertebrae that disagrees
\* with the rule-based status.
C9_Witness ==
    /\ pc = "classified"
    /\ is_trained
    /\ Len(vertebrae) >= 2
    /\ \E i \in 1 .. Len(vertebrae) : vertebrae[i].ml_status # vertebrae[i].status

(***************************************************************************)
(* MeshGenerator (src/app/ai/reconstruction/mesh_generator.py)             *)
(*                                                                         *)
(* Volumes handed to generate are normalised to [0,1] or are 0/1 masks;    *)
(* they are stored scaled by HU_SPAN like rescaled volumes, so 0.5 is      *)
(* 2012 and 1.0 is 4024.  pyvista is taken as installed.                   *)
(***************************************************************************)
MIN_VERTICES == 10

MeshMaxDim == 3

MeshMaxVerts == 12

\* Base corners of the cubes marching_cubes visits: multiples of step_size
\* whose opposite corner is still inside the volume.
Cells(sh, st) ==
    {p \in Grid(sh) :
        \A i \in 1 .. 3 : p[i] % st = 0 /\ p[i] + st <= sh[i] - 1}

Corners(p, st) ==
    {<<p[1] + a, p[2] + b, p[3] + c>> : a \in {0, st}, b \in {0, st}, c \in {0, st}}

\* Side of the iso-surface a sample lies on; which side a sample equal to
\* the level falls on is the library's convention.
Inside(v, iso, strict) == IF strict THEN v > iso ELSE v >= iso

Crossed(vol, p, st, iso, strict) ==
    \E a, b \in Corners(p, st) :
        Inside(vol[a], iso, strict) /\ ~Inside(vol[b], iso, strict)

\* skimage.measure.marching_cubes by its contract: ValueError for a volume
\* thinner than 2 voxels, a level outside [min, max] or a step below 1;
\* RuntimeError("No surface found at the given iso value.") when no visited
\* cube is crossed by the level; otherwise some vertices.
marching_cubes(vol, sh, iso, st, strict) ==
    IF \/ \E i \in 1 .. 3 : sh[i] < 2
       \/ iso < SetMin(Values(vol))
       \/ iso > SetMax(Values(vol))
       \/ st < 1
    THEN {[kind |-> "ValueError", n |-> 0]}
    ELSE IF \A p \in Cells(sh, st) : ~Crossed(vol, p, st, iso, strict)
    THEN {[kind |-> "RuntimeError", n |-> 0]}
    ELSE {[kind |-> "ok", n |-> k] : k \in 3 .. MeshMaxVerts}

\* MeshGenerator.generate: the outcome for one result of marching_cubes.
\* Only ValueError is caught; any other error leaves generate.
generate(mc, skimage) ==
    IF ~skimage THEN "None"
    ELSE IF mc.kind = "ValueError" THEN "None"
    ELSE IF mc.kind # "ok" THEN mc.kind
    ELSE IF mc.n < MIN_VERTICES THEN "None"
    ELSE "mesh"

Iso == IF level_arg = <<>> THEN self_level ELSE level_arg[1]

Generate ==
    /\ pc = "input"
    /\ mesh_result = "pending"
    /\ \E strict \in BOOLEAN :
       \E mc \in marching_cubes(volume, shape, Iso, step_size, strict) :
          /\ mesh_result' = generate(mc, skimage_ok)
          /\ n_verts' = IF skimage_ok THEN mc.n ELSE 0
    /\ pc' = "generated"
    /\ UNCHANGED <<segVars, detVars, clsVars, self_level, level_arg,
                   step_size, skimage_ok, runVars, stopVars, extVars>>

\* generate_from_mask: generate(mask.astype(float32), level=0.5).
GenerateFromMask ==
    /\ pc = "input"
    /\ mesh_result = "pending"
    /\ Values(volume) \subseteq {0, HU_SPAN}
    /\ \E strict \in BOOLEAN :
       \E mc \in marching_cubes(volume, shape, HU_SPAN \div 2, step_size, strict) :
          /\ mesh_result' = generate(mc, skimage_ok)
          /\ n_verts' = IF skimage_ok THEN mc.n ELSE 0
    /\ level_arg' = <<HU_SPAN \div 2>>
    /\ pc' = "from_mask"
    /\ UNCHANGED <<segVars, detVars, clsVars, self_level, step_size, skimage_ok,
                   runVars, stopVars, extVars>>

MeshShapes ==
    {<<a, b, b>> : a \in 1 .. MeshMaxDim, b \in 2 .. MeshMaxDim}

\* Volumes: 0/1 masks with no, one, two or all voxels set, and volumes of
\* one constant value.
MeshVolumes(sh) ==
    {[p \in Grid(sh) |-> IF p \in {q, r} THEN HU_SPAN ELSE 0] : q, r \in Grid(sh)}
    \cup {[p \in Grid(sh) |-> c] : c \in {0, HU_SPAN \div 2, HU_SPAN}}

InitMesh ==
    /\ pc = "input"
    /\ shape \in MeshShapes
    /\ volume \in MeshVolumes(shape)
    /\ self_level = DEFAULT_LEVEL
    /\ level_arg \in {<<>>, <<HU_SPAN \div 4>>, <<HU_SPAN + HU_SPAN \div 2>>}
    /\ step_size \in {1, DEFAULT_STEP_SIZE}
    /\ skimage_ok \in BOOLEAN
    /\ n_verts = 0
    /\ mesh_result = "pending"
    /\ hu_low = PRESETS.spine[1]
    /\ hu_high = PRESETS.spine[2]
    /\ min_size = 0
    /\ scipy_ok = TRUE
    /\ seg_mask = {}
    /\ clean_mask = {}
    /\ builder_mask = {}
    /\ norm_mask = {}
    /\ DetIdle
    /\ ClsIdle
    /\ RunIdle
    /\ StopIdle
    /\ ExtIdle

NextMesh == Generate \/ GenerateFromMask

SpecMesh == InitMesh /\ [][NextMesh]_vars

Generated == pc \in {"generated", "from_mask"}

\* C10: generate returns None and raises nothing whenever the level does
\* not intersect the data or fewer than 10 vertices were extracted, and it
\* returns a mesh only when at least 10 vertices were extracted.
C10_NoneNeverRaises ==
    Generated =>
        /\ mesh_result \in {"None", "mesh"}
        /\ (n_verts < MIN_VERTICES => mesh_result = "None")
        /\ (mesh_result = "mesh" => n_verts >= MIN_VERTICES)

(***************************************************************************)
(* QuantitativeAnalyzer (src/app/analysis/quantitative.py)                 *)
(*                                                                         *)
(* Metrics are a function from the keys that were written to their values, *)
(* in the units of the rounding: bone_volume_cm3 in hundredths, hu_* and   *)
(* heights and the angle in tenths, ratios and the density index in        *)
(* thousandths.                                                            *)
(***************************************************************************)
EmptyMetrics == [k \in {} |-> 0]

\* One entry of the metrics map.
Entry(key, value) == [k \in {key} |-> value]

\* ptp() of the z coordinates of the centroids is below 1.
ZSpanBelowOne(vs) ==
    \A i, j \in 1 .. Len(vs) :
        LET a == vs[i].centroid_px
            b == vs[j].centroid_px
        IN  a.z * b.den - b.z * a.den < a.den * b.den

\* The centroids lie on one line x = a z + b: the residuals of the fit vanish.
Collinear(vs) ==
    \A i, j, k \in 1 .. Len(vs) :
        LET a == vs[i].centroid_px
            b == vs[j].centroid_px
            c == vs[k].centroid_px
        IN  (b.z * a.den - a.z * b.den) * (c.x * a.den - a.x * c.den) * b.den * c.den
            = (c.z * a.den - a.z * c.den) * (b.x * a.den - a.x * b.den) * b.den * c.den

\* A curvature estimate that trusts the fit for every list.
estimate_cobb_fit_only(vs, fit) ==
    IF Len(vs) = 0 \/ ZSpanBelowOne(vs) THEN 0 ELSE fit

\* quantitative.py:75-88.  fit is degrees(arctan2(res.ptp(), z.ptp())) of the
\* numpy line fit, rounded to tenths; centroids on one line leave no residual.
estimate_cobb(vs, fit) ==
    IF Len(vs) < 3 THEN 0
    ELSE IF \E i \in 1 .. Len(vs) : "centroid_px" \notin DOMAIN vs[i] THEN 0
    ELSE IF ZSpanBelowOne(vs) THEN 0
    ELSE IF Collinear(vs) THEN 0
    ELSE fit

\* v.get("ml_status", v.get("status", "normal"))
StatusOf(v) ==
    IF "ml_status" \in DOMAIN v THEN v.ml_status
    ELSE IF "status" \in DOMAIN v THEN v.status
    ELSE "normal"

CountStatus(vs, st) == Cardinality({i \in 1 .. Len(vs) : StatusOf(vs[i]) = st})

SeqSum(f, n) == SumOver(f, 1 .. n)

\* int(np.argmin(comp_list)): the first index of the minimum.
ArgMin(f, n) ==
    CHOOSE i \in 1 .. n :
        /\ \A j \in 1 .. n : f[i] <= f[j]
        /\ \A j \in 1 .. i - 1 : f[j] > f[i]

\* quantitative.py:25-34
VolumeMetrics(mesh, mask, dz, dy, dx) ==
    IF mask # {}
    THEN Entry("bone_volume_cm3", RoundDiv(Cardinality(mask) * dz * dy * dx, 10000))
         @@ Entry("bone_voxel_count", Cardinality(mask))
    ELSE IF mesh # "None" THEN Entry("mesh_volume_cm3", "abs(mesh.volume)")
    ELSE EmptyMetrics

\* quantitative.py:36-45
DensityMetrics(vol, mask) ==
    IF mask = {} THEN EmptyMetrics
    ELSE LET cnt == Cardinality(mask)
             half == HU_SPAN \div 2
             total == SumOver(vol, mask)
             lowest == SetMin({vol[p] : p \in mask})
             dev == [p \in mask |-> (vol[p] - lowest) \div HU_SPAN]
             dev2 == [p \in mask |-> dev[p] * dev[p]]
             s1 == SumOver(dev, mask)
             s2 == SumOver(dev2, mask)
         IN  Entry("hu_mean", RoundDiv(5 * total, half * cnt))
             @@ Entry("hu_std", RoundSqrtDiv(100 * (cnt * s2 - s1 * s1), cnt, 0))
             @@ Entry("hu_min", RoundDiv(5 * lowest, half))
             @@ Entry("hu_max", RoundDiv(5 * SetMax({vol[p] : p \in mask}), half))
             @@ Entry("bone_density_index",
                      IF total <= HU(200) * cnt THEN 0
                      ELSE IF total >= HU(1600) * cnt THEN 1000
                      ELSE RoundDiv(5 * (total \div cnt - HU(200)), 7 * HU_SPAN))

\* quantitative.py:47-67
VertebraMetrics(vs, fit) ==
    IF Len(vs) = 0 THEN EmptyMetrics
    ELSE LET n == Len(vs)
             h == [i \in 1 .. n |-> vs[i].height_mm]
             c == [i \in 1 .. n |-> vs[i].compression_ratio]
             worst == ArgMin(c, n)
         IN  Entry("vertebrae_count", n)
             @@ Entry("mean_vertebra_height_mm", RoundDiv(SeqSum(h, n), n))
             @@ Entry("min_vertebra_height_mm", SetMin({h[i] : i \in 1 .. n}))
             @@ Entry("mean_compression_ratio", RoundDiv(SeqSum(c, n), n))
             @@ Entry("min_compression_ratio", SetMin({c[i] : i \in 1 .. n}))
             @@ Entry("count_normal", CountStatus(vs, "normal"))
             @@ Entry("count_osteopenique", CountStatus(vs, "ostéopénique"))
             @@ Entry("count_suspect", CountStatus(vs, "suspect"))
             @@ Entry("count_comprimee", CountStatus(vs, "comprimée"))
             @@ Entry("estimated_cobb_angle_deg", estimate_cobb(vs, fit))
             @@ Entry("most_compressed_vertebra",
                      IF "label" \in DOMAIN vs[worst] THEN vs[worst].label ELSE "?")
             @@ Entry("most_compressed_ratio", c[worst])

\* A count that is written for every list.
AnomalyMetricsAlways(anoms) == Entry("total_anomalies", Len(anoms))

\* quantitative.py:69-70
AnomalyMetrics(anoms) ==
    IF Len(anoms) > 0 THEN Entry("total_anomalies", Len(anoms)) ELSE EmptyMetrics

\* quantitative.py:12-73.  spacing = <<dz, dy, dx>> in tenths of a millimetre.
analyze(mesh, anoms, vs, vol, mask, spacing, fit) ==
    VolumeMetrics(mesh, mask, spacing[1], spacing[2], spacing[3])
    @@ DensityMetrics(vol, mask)
    @@ VertebraMetrics(vs, fit)
    @@ AnomalyMetrics(anoms)

\* Values the line fit may give for centroids off a straight line, in tenths
\* of a degree.
CobbChoices == {0, 3, 125}

Analyze ==
    /\ pc = "input"
    /\ \E fit \in CobbChoices :
          metrics' = analyze(mesh_result, anomalies, vertebrae, volume, bone_mask,
                             <<dz10>> \o spacing_yx, fit)
    /\ pc' = "analyzed"
    /\ UNCHANGED <<segVars, detVars, clsVars, meshVars, stopVars, extVars>>
    /\ UNCHANGED <<preset_arg, entry, fault, yolo, spacing_yx, progress_log,
                   stage_log, signals, raised, mesh_vertices, anomalies>>

AnMaxVertebrae == 4

AnMaxAnomalies == 2

\* A vertebra as detect writes it (and classify, if classified): the i-th of
\* n slabs of three slices, centred at column x, with compression ratio c.
AnVertebra(i, n, x, c, classified) ==
    LET st == classify_rule(700, 1, c, 1000)
        v == [label |-> assign_labels(n)[i],
              z_start |-> 3 * (i - 1),
              z_end |-> 3 * i,
              height_mm |-> 30,
              centroid_px |-> [den |-> 1, z |-> 3 * i - 2, y |-> 1, x |-> x],
              hu_mean |-> 7000,
              hu_std |-> 0,
              bone_fraction |-> 5000,
              compression_ratio |-> c,
              status |-> st]
    IN  IF classified THEN classify_one(v, FALSE, <<>>) ELSE v

AnomalyRecords ==
    {[slice_index |-> 5, type |-> "Fracture (Simulated)", confidence |-> 95],
     [slice_index |-> 0, type |-> "lesion", confidence |-> 41]}

InitAnalyze ==
    /\ pc = "input"
    /\ \E n \in 0 .. AnMaxVertebrae, classified \in BOOLEAN :
       \E xs \in [1 .. n -> {2, 3}], cs \in [1 .. n -> {650, 1000}] :
          vertebrae = [i \in 1 .. n |-> AnVertebra(i, n, xs[i], cs[i], classified)]
    /\ anomalies \in UNION {[1 .. k -> AnomalyRecords] : k \in 0 .. AnMaxAnomalies}
    /\ shape = <<1, 1, 2>>
    /\ bone_mask \in {{}, {<<0, 0, 0>>}}
    /\ volume = [p \in Grid(shape) |-> IF p \in bone_mask THEN HU(700) ELSE HU(-400)]
    /\ mesh_result \in {"None", "mesh"}
    /\ dz10 = 10
    /\ spacing_yx = <<10, 10>>
    /\ metrics = EmptyMetrics
    /\ peaks = {}
    /\ is_trained = FALSE
    /\ hu_low = PRESETS.spine[1]
    /\ hu_high = PRESETS.spine[2]
    /\ min_size = 0
    /\ scipy_ok = TRUE
    /\ seg_mask = {}
    /\ clean_mask = {}
    /\ builder_mask = {}
    /\ norm_mask = {}
    /\ self_level = DEFAULT_LEVEL
    /\ level_arg = <<>>
    /\ step_size = DEFAULT_STEP_SIZE
    /\ skimage_ok = TRUE
    /\ n_verts = 0
    /\ preset_arg = "spine"
    /\ entry = "none"
    /\ fault = "none"
    /\ yolo = "absent"
    /\ progress_log = <<>>
    /\ stage_log = <<>>
    /\ signals = <<>>
    /\ raised = "none"
    /\ mesh_vertices = 0
    /\ StopIdle
    /\ ExtIdle

NextAnalyze == Analyze

SpecAnalyze == InitAnalyze /\ [][NextAnalyze]_vars

Analyzed == pc = "analyzed"

\* C18 as stated: for every list of fewer than 3 vertebrae (0, 1 or 2
\* entries) analyze reports estimated_cobb_angle_deg equal to 0.0.
C18_FewVertebraeCobbZero ==
    (Analyzed /\ Len(vertebrae) < 3) =>
        /\ "estimated_cobb_angle_deg" \in DOMAIN metrics
        /\ metrics["estimated_cobb_angle_deg"] = 0

\* C18, amended: analyze returns for every list of fewer than 3 vertebrae;
\* for 1 or 2 entries it reports estimated_cobb_angle_deg = 0.0, for the
\* empty list it writes no vertebra metric at all, the angle included.
C18_FewVertebraeCobbZeroOrAbsent ==
    (Analyzed /\ Len(vertebrae) < 3) =>
        IF Len(vertebrae) = 0
        THEN "estimated_cobb_angle_deg" \notin DOMAIN metrics
        ELSE /\ "estimated_cobb_angle_deg" \in DOMAIN metrics
             /\ metrics["estimated_cobb_angle_deg"] = 0

\* C18 witness: two vertebrae at different columns, analysed.
C18_Witness ==
    /\ Analyzed
    /\ Len(vertebrae) = 2
    /\ vertebrae[1].centroid_px.x # vertebrae[2].centroid_px.x
    /\ metrics["vertebrae_count"] = 2

WithoutKey(f, key) == [k \in DOMAIN f \ {key} |-> f[k]]

\* C20 as stated: whenever an anomaly list is supplied, the empty list
\* included, the metrics contain total_anomalies equal to its length.
C20_TotalAnomaliesIsLength ==
    Analyzed =>
        /\ "total_anomalies" \in DOMAIN metrics
        /\ metrics["total_anomalies"] = Len(anomalies)

\* C20, amended: a non-empty anomaly list gives total_anomalies equal to its
\* length, an empty one leaves the key out; every other metric is what
\* analyze computes without any anomaly.
C20_TotalAnomaliesIfNonEmpty ==
    Analyzed =>
        /\ ("total_anomalies" \in DOMAIN metrics) = (Len(anomalies) > 0)
        /\ Len(anomalies) > 0 => metrics["total_anomalies"] = Len(anomalies)
        /\ \E fit \in CobbChoices :
              WithoutKey(metrics, "total_anomalies")
                  = analyze(mesh_result, <<>>, vertebrae, volume, bone_mask,
                            <<dz10>> \o spacing_yx, fit)

\* C20 witness: two different anomaly records counted.
C20_Witness ==
    /\ Analyzed
    /\ Len(anomalies) = 2
    /\ anomalies[1] # anomalies[2]
    /\ metrics["total_anomalies"] = 2

(***************************************************************************)
(* BoneSegmenter construction (segmentation.py:33-36)                      *)
(***************************************************************************)
\* A constructor that falls back to the default preset for an unknown name.
bone_segmenter_init_lenient(preset) ==
    IF preset \in DOMAIN PRESETS
    THEN [ok |-> TRUE, hu_low |-> PRESETS[preset][1], hu_high |-> PRESETS[preset][2]]
    ELSE [ok |-> TRUE, hu_low |-> PRESETS.spine[1], hu_high |-> PRESETS.spine[2]]

\* segmentation.py:33-36: the assert (or, with assertions compiled out, the
\* table lookup) fails for a name outside the table; no object results.
bone_segmenter_init(preset) ==
    IF preset \in DOMAIN PRESETS
    THEN [ok |-> TRUE, hu_low |-> PRESETS[preset][1], hu_high |-> PRESETS[preset][2]]
    ELSE [ok |-> FALSE, hu_low |-> 0, hu_high |-> 0]

Construct ==
    /\ pc = "new"
    /\ LET obj == bone_segmenter_init(preset_arg)
       IN  IF obj.ok
           THEN /\ hu_low' = obj.hu_low
                /\ hu_high' = obj.hu_high
                /\ raised' = "none"
                /\ pc' = "input"
           ELSE /\ \E err \in {"AssertionError", "KeyError"} : raised' = err
                /\ pc' = "init_failed"
                /\ UNCHANGED <<hu_low, hu_high>>
    /\ UNCHANGED <<shape, volume, min_size, scipy_ok, seg_mask, clean_mask,
                   builder_mask, norm_mask>>
    /\ UNCHANGED <<detVars, clsVars, meshVars, stopVars, extVars>>
    /\ UNCHANGED <<preset_arg, entry, fault, yolo, spacing_yx, progress_log,
                   stage_log, signals, mesh_vertices, anomalies, metrics>>

PresetArgs == DOMAIN PRESETS \cup {"skull", "", "Spine"}

PresetVoxels == 2

InitPreset ==
    /\ pc = "new"
    /\ preset_arg \in PresetArgs
    /\ shape = <<1, 1, PresetVoxels>>
    /\ volume \in [Grid(shape) -> WinValues]
    /\ hu_low = 0
    /\ hu_high = 0
    /\ min_size = 0
    /\ scipy_ok = TRUE
    /\ seg_mask = {}
    /\ clean_mask = {}
    /\ builder_mask = {}
    /\ norm_mask = {}
    /\ DetIdle
    /\ ClsIdle
    /\ MeshIdle
    /\ entry = "none"
    /\ fault = "none"
    /\ yolo = "absent"
    /\ spacing_yx = <<10, 10>>
    /\ progress_log = <<>>
    /\ stage_log = <<>>
    /\ signals = <<>>
    /\ raised = "none"
    /\ mesh_vertices = 0
    /\ anomalies = <<>>
    /\ metrics = <<>>
    /\ StopIdle
    /\ ExtIdle

NextPreset == Construct \/ Segment

SpecPreset == InitPreset /\ [][NextPreset]_vars

\* C17: constructing a BoneSegmenter with a name outside the preset table
\* fails with an error and yields no segmenter; with a name of the table it
\* succeeds and sets hu_low < hu_high to that preset's window.
C17_PresetChecked ==
    pc # "new" =>
        IF preset_arg \in {"bone_cortical", "bone_all", "bone_soft", "spine"}
        THEN /\ pc \in {"input", "segmented"}
             /\ raised = "none"
             /\ <<hu_low, hu_high>> = PRESETS[preset_arg]
             /\ hu_low < hu_high
        ELSE /\ pc = "init_failed"
             /\ raised # "none"
             /\ seg_mask = {}

\* C17 witness: a segmenter built from a preset other than the default has
\* segmented a volume with its window.
C17_Witness ==
    /\ pc = "segmented"
    /\ preset_arg = "bone_cortical"
    /\ hu_low = 700
    /\ seg_mask # {}

(***************************************************************************)
(* The pipeline: SpineReconstructor.reconstruct_from_volume and            *)
(* reconstruct_from_dicom (spine_reconstructor.py) and AnalysisWorker.run  *)
(* (analysis_worker.py), one step per stage call together with the         *)
(* progress reports that follow it.  entry names the operation under way;  *)
(* for "worker" the progress sink is the progress signal and the           *)
(* reconstruction runs through reconstruct_from_dicom.                     *)
(***************************************************************************)
DEFAULT_MIN_SIZE == 500

SIMULATION_MIN_SLICES == 10

\* A sink that passes the reconstruction percentages through unscaled.
SinkUnscaled(e, p) == p

\* The callback the reconstruction reports to: the caller's sink itself, or
\* analysis_worker.py:44  lambda p, m: self.progress.emit(int(p * 0.35), m).
Sink(e, p) == IF e = "worker" THEN (p * 35) \div 100 ELSE p

\* The percentages reconstruct_from_volume (spine_reconstructor.py:143-158)
\* or reconstruct_from_dicom (:83-117) reports once the given stage has
\* returned, up to its next stage call.
ReconReports(e, stage) ==
    IF e = "from_volume"
    THEN CASE stage = "start" -> <<0>>
           [] stage = "prepare" -> <<30, 35>>
           [] stage = "segment" -> <<60, 65>>
           [] stage = "mesh" -> <<95, 100>>
    ELSE CASE stage = "start" -> <<0>>
           [] stage = "load" -> <<20, 25>>
           [] stage = "prepare" -> <<40, 45>>
           [] stage = "segment" -> <<60, 65>>
           [] stage = "mesh" -> <<90, 100>>

\* The percentages AnalysisWorker.run emits itself (analysis_worker.py:40-101)
\* once the given stage has returned.
WorkerReports(stage) ==
    CASE stage = "start" -> <<0>>
      [] stage = "mesh" -> <<35, 35>>
      [] stage = "detect" -> <<50>>
      [] stage = "classify" -> <<60, 60>>
      [] stage = "anomaly" -> <<75, 75>>
      [] stage = "analyze" -> <<90, 90>>
      [] stage = "summary" -> <<100>>

Sunk(e, ps) == [i \in 1 .. Len(ps) |-> Sink(e, ps[i])]

\* Everything delivered to the sink once the stage has returned.
Reported(e, stage) ==
    IF e # "worker" THEN Sunk(e, ReconReports(e, stage))
    ELSE IF stage = "start" THEN WorkerReports(stage) \o Sunk(e, ReconReports(e, stage))
    ELSE IF stage \in {"load", "prepare", "segment"} THEN Sunk(e, ReconReports(e, stage))
    ELSE IF stage = "mesh" THEN Sunk(e, ReconReports(e, stage)) \o WorkerReports(stage)
    ELSE WorkerReports(stage)

\* A worker that answers every failure with both signals.
on_raise_both(e, sigs) == IF e = "worker" THEN sigs \o <<"error", "finished">> ELSE sigs

\* analysis_worker.py:105-107: an exception reaching run is answered with
\* the error signal; the reconstruct calls let it pass to their caller.
on_raise(e, sigs) == IF e = "worker" THEN Append(sigs, "error") ELSE sigs

\* An order in which the classifier is called ahead of the detector.
NextStageClassifyFirst(e, stage) ==
    CASE stage = "start" -> IF e = "from_volume" THEN "prepare" ELSE "load"
      [] stage = "load" -> "prepare"
      [] stage = "prepare" -> "segment"
      [] stage = "segment" -> "mesh"
      [] stage = "mesh" -> IF e = "worker" THEN "classify" ELSE "done"
      [] stage = "classify" -> "detect"
      [] stage = "detect" -> "anomaly"
      [] stage = "anomaly" -> "analyze"
      [] stage = "analyze" -> "summary"
      [] stage = "summary" -> "done"

\* The stage called after the given one has returned: the statement order
\* of reconstruct_from_volume (spine_reconstructor.py:143-158),
\* reconstruct_from_dicom (:83-117) and AnalysisWorker.run
\* (analysis_worker.py:40-103).
NextStage(e, stage) ==
    CASE stage = "start" -> IF e = "from_volume" THEN "prepare" ELSE "load"
      [] stage = "load" -> "prepare"
      [] stage = "prepare" -> "segment"
      [] stage = "segment" -> "mesh"
      [] stage = "mesh" -> IF e = "worker" THEN "detect" ELSE "done"
      [] stage = "detect" -> "classify"
      [] stage = "classify" -> "anomaly"
      [] stage = "anomaly" -> "analyze"
      [] stage = "analyze" -> "summary"
      [] stage = "summary" -> "done"

Returned(stage) == stage_log \o <<<<"begin", stage>>, <<"end", stage>>>>

Failed(stage) == stage_log \o <<<<"begin", stage>>, <<"raise", stage>>>>

\* The stage raises and the exception leaves the try body of the operation.
Raise(stage, err) ==
    /\ stage_log' = Failed(stage)
    /\ signals' = on_raise(entry, signals)
    /\ raised' = IF entry = "worker" THEN "none" ELSE err
    /\ pc' = "done"

\* The stage returned: log it, report, and move to the next stage.
Proceed(stage) ==
    /\ stage_log' = Returned(stage)
    /\ progress_log' = progress_log \o Reported(entry, stage)
    /\ pc' = NextStage(entry, stage)

pipeFrame == <<shape, volume, hu_low, hu_high, min_size, scipy_ok, seg_mask, norm_mask,
               dz10, is_trained, self_level, level_arg, step_size, skimage_ok,
               preset_arg, entry, fault, yolo, spacing_yx, stopVars,
               postVars, ruleVars, stopped_at, uiVars>>

\* analysis_worker.py:34 and :108-109: run sets is_running on entry and
\* clears it on the way out; it is read nowhere in between.
RunFlag ==
    is_running' = IF entry = "worker" /\ pc = "start" /\ pc' # "done" THEN TRUE
                  ELSE IF pc' = "done" THEN FALSE
                  ELSE is_running

\* spine_reconstructor.py:83 / :143 and analysis_worker.py:40-45: the first
\* reports, before any stage is called.
Start ==
    /\ pc = "start"
    /\ progress_log' = progress_log \o Reported(entry, "start")
    /\ pc' = NextStage(entry, "start")
    /\ UNCHANGED <<pipeFrame, stage_log, signals, raised, clean_mask, builder_mask,
                   bone_mask, peaks, vertebrae, n_verts, mesh_result,
                   mesh_vertices, anomalies, metrics>>
    /\ RunFlag

\* spine_reconstructor.py:86-93: the loader supplies volume and spacing.
Load ==
    /\ pc = "load"
    /\ IF fault = "load"
       THEN Raise("load", "FileNotFoundError") /\ UNCHANGED progress_log
       ELSE Proceed("load") /\ UNCHANGED <<signals, raised>>
    /\ UNCHANGED <<pipeFrame, clean_mask, builder_mask, bone_mask, peaks, vertebrae,
                   n_verts, mesh_result, mesh_vertices, anomalies, metrics>>
    /\ RunFlag

\* spine_reconstructor.py:97-101 / :144-146: VolumeBuilder.prepare.
Prepare ==
    /\ pc = "prepare"
    /\ IF fault = "prepare"
       THEN Raise("prepare", "ValueError") /\ UNCHANGED <<progress_log, builder_mask>>
       ELSE /\ builder_mask' = compute_bone_mask(volume, hu_low, hu_high)
            /\ Proceed("prepare")
            /\ UNCHANGED <<signals, raised>>
    /\ UNCHANGED <<pipeFrame, clean_mask, bone_mask, peaks, vertebrae,
                   n_verts, mesh_result, mesh_vertices, anomalies, metrics>>
    /\ RunFlag

\* spine_reconstructor.py:105-108 / :149-151: segment_with_cleanup(volume).
SegmentStage ==
    /\ pc = "segment"
    /\ IF fault = "segment"
       THEN Raise("segment", "MemoryError")
            /\ UNCHANGED <<progress_log, clean_mask, bone_mask>>
       ELSE /\ clean_mask' = segment_with_cleanup(volume, shape, hu_low, hu_high,
                                                  min_size, scipy_ok)
            /\ bone_mask' = clean_mask'
            /\ Proceed("segment")
            /\ UNCHANGED <<signals, raised>>
    /\ UNCHANGED <<pipeFrame, builder_mask, peaks, vertebrae,
                   n_verts, mesh_result, mesh_vertices, anomalies, metrics>>
    /\ RunFlag

MaskVolume(mask, sh) == [p \in Grid(sh) |-> IF p \in mask THEN HU_SPAN ELSE 0]

\* spine_reconstructor.py:112-117 / :154-158: _generate_mesh, which answers
\* any exception of the generator with None, then _compute_stats.
MeshStage ==
    /\ pc = "mesh"
    /\ \E strict \in BOOLEAN :
       \E mc \in marching_cubes(MaskVolume(bone_mask, shape), shape, HU_SPAN \div 2,
                                step_size, strict) :
          LET out == IF fault = "mesh" THEN "ImportError" ELSE generate(mc, skimage_ok)
              ok == out \in {"None", "mesh"}
          IN  /\ mesh_result' = IF ok THEN out ELSE "None"
              /\ n_verts' = IF fault = "mesh" \/ ~skimage_ok THEN 0 ELSE mc.n
              /\ \E k \in {3, mc.n} :
                    mesh_vertices' = IF out = "mesh" THEN k ELSE 0
              /\ stage_log' = IF ok THEN Returned("mesh") ELSE Failed("mesh")
    /\ progress_log' = progress_log \o Reported(entry, "mesh")
    /\ pc' = NextStage(entry, "mesh")
    /\ UNCHANGED <<pipeFrame, signals, raised, clean_mask, builder_mask, bone_mask,
                   peaks, vertebrae, anomalies, metrics>>
    /\ RunFlag

\* analysis_worker.py:57-62: VertebraDetector().detect(bone_mask, volume,
\* spacing).  Past the noise floor, int(5 / dz) divides by the axial spacing.
DetectStage ==
    /\ pc = "detect"
    /\ LET profile == Profile(bone_mask, shape)
           quiet == SetMax({profile[z] : z \in 0 .. shape[1] - 1}) < PROFILE_NOISE_FLOOR
       IN  IF fault = "detect"
           THEN Raise("detect", "ImportError")
                /\ UNCHANGED <<progress_log, peaks, vertebrae>>
           ELSE IF ~quiet /\ dz10 = 0
           THEN Raise("detect", "ZeroDivisionError")
                /\ UNCHANGED <<progress_log, peaks, vertebrae>>
           ELSE /\ \E pk \in IF quiet THEN {{}}
                             ELSE PeakChoices(shape[1], MinDistance(dz10)) :
                      /\ peaks' = pk
                      /\ vertebrae' = detect(bone_mask, volume, shape, dz10, pk)
                /\ Proceed("detect")
                /\ UNCHANGED <<signals, raised>>
    /\ UNCHANGED <<pipeFrame, clean_mask, builder_mask, bone_mask,
                   n_verts, mesh_result, mesh_vertices, anomalies, metrics>>
    /\ RunFlag

\* analysis_worker.py:63-67: VertebraClassifier().classify(vertebrae).
ClassifyStage ==
    /\ pc = "classify"
    /\ IF fault = "classify"
       THEN Raise("classify", "KeyError") /\ UNCHANGED <<progress_log, vertebrae>>
       ELSE /\ IF is_trained
               THEN \E oracle \in Oracles(vertebrae) :
                       vertebrae' = classify(vertebrae, TRUE, oracle)
               ELSE vertebrae' = classify(vertebrae, FALSE, <<>>)
            /\ Proceed("classify")
            /\ UNCHANGED <<signals, raised>>
    /\ UNCHANGED <<pipeFrame, clean_mask, builder_mask, bone_mask, peaks,
                   n_verts, mesh_result, mesh_vertices, anomalies, metrics>>
    /\ RunFlag

\* anomaly_detector.py:58-70: without the library or a loaded model the
\* detector "simulates": one made-up fracture for more than 10 slices.
simulated_anomalies(nz) ==
    IF nz > SIMULATION_MIN_SLICES
    THEN <<[slice_index |-> nz \div 2, type |-> "Fracture (Simulated)",
            confidence |-> 95]>>
    ELSE <<>>

\* What a loaded model may find (anomaly_detector.py:72-106).
FoundAnomalies ==
    {<<>>, <<[slice_index |-> 0, type |-> "lesion", confidence |-> 41]>>}

\* analysis_worker.py:70-79: AnomalyDetector().detect_anomalies(volume,
\* bone_mask); an exception of the call is answered with the empty list.
AnomalyStage ==
    /\ pc = "anomaly"
    /\ IF yolo = "loaded"
       THEN \/ /\ anomalies' \in FoundAnomalies
               /\ stage_log' = Returned("anomaly")
            \/ /\ anomalies' = <<>>
               /\ stage_log' = Failed("anomaly")
       ELSE /\ anomalies' = simulated_anomalies(shape[1])
            /\ stage_log' = Returned("anomaly")
    /\ progress_log' = progress_log \o Reported(entry, "anomaly")
    /\ pc' = NextStage(entry, "anomaly")
    /\ UNCHANGED <<pipeFrame, signals, raised, clean_mask, builder_mask, bone_mask,
                   peaks, vertebrae, n_verts, mesh_result, mesh_vertices, metrics>>
    /\ RunFlag

\* analysis_worker.py:82-96: QuantitativeAnalyzer().analyze(...).
AnalyzeStage ==
    /\ pc = "analyze"
    /\ IF fault = "analyze"
       THEN Raise("analyze", "TypeError") /\ UNCHANGED <<progress_log, metrics>>
       ELSE /\ \E fit \in CobbChoices :
                  metrics' = analyze(mesh_result, anomalies, vertebrae, volume,
                                     bone_mask, <<dz10>> \o spacing_yx, fit)
            /\ Proceed("analyze")
            /\ UNCHANGED <<signals, raised>>
    /\ UNCHANGED <<pipeFrame, clean_mask, builder_mask, bone_mask, peaks, vertebrae,
                   n_verts, mesh_result, mesh_vertices, anomalies>>
    /\ RunFlag

\* analysis_worker.py:99-103: the summary, the last report, then finished.
Finish ==
    /\ pc = "summary"
    /\ IF fault = "summary"
       THEN Raise("summary", "TypeError") /\ UNCHANGED progress_log
       ELSE /\ Proceed("summary")
            /\ signals' = Append(signals, "finished")
            /\ UNCHANGED raised
    /\ UNCHANGED <<pipeFrame, clean_mask, builder_mask, bone_mask, peaks, vertebrae,
                   n_verts, mesh_result, mesh_vertices, anomalies, metrics>>
    /\ RunFlag

PipeMaxNz == 11

PipeShapes == {<<nz, 2, 5>> : nz \in {1, 2, 4, 7, PipeMaxNz}}

\* Uniform volumes, and plates: bone of density 700 in every slice but the
\* last, on a background of -400.
PipeVolumes(sh) ==
    {[p \in Grid(sh) |-> v] : v \in {HU(-1024), HU(-500), HU(150), HU(700),
                                     HU_SPAN \div 2}}
    \cup {[p \in Grid(sh) |-> IF p[1] < sh[1] - 1 THEN HU(700) ELSE HU(-400)]}

\* <<dz, dy, dx>> in tenths of a millimetre, valid and invalid.
PipeSpacings == {<<10, 10, 10>>, <<25, 5, 5>>, <<0, 10, 10>>, <<10, -5, 10>>}

ReconFaults == {"none", "load", "prepare", "segment", "mesh"}

WorkerFaults == ReconFaults \cup {"detect", "classify", "analyze", "summary"}

InitPipeline ==
    /\ pc = "start"
    /\ entry \in {"from_volume", "from_dicom", "worker"}
    /\ fault \in IF entry = "worker" THEN WorkerFaults
                 ELSE IF entry = "from_dicom" THEN ReconFaults
                 ELSE ReconFaults \ {"load"}
    /\ yolo \in IF entry = "worker" THEN {"absent", "no_model", "loaded"} ELSE {"absent"}
    /\ is_trained \in IF entry = "worker" /\ fault = "none" /\ yolo = "absent"
                      THEN BOOLEAN ELSE {FALSE}
    /\ shape \in PipeShapes
    /\ volume \in PipeVolumes(shape)
    /\ \E sp \in PipeSpacings : dz10 = sp[1] /\ spacing_yx = <<sp[2], sp[3]>>
    /\ step_size = IF entry = "worker" THEN 1 ELSE DEFAULT_STEP_SIZE
    /\ hu_low = PRESETS.spine[1]
    /\ hu_high = PRESETS.spine[2]
    /\ min_size = DEFAULT_MIN_SIZE
    /\ scipy_ok = TRUE
    /\ skimage_ok = TRUE
    /\ self_level = DEFAULT_LEVEL
    /\ level_arg = <<HU_SPAN \div 2>>
    /\ preset_arg = "spine"
    /\ seg_mask = {}
    /\ clean_mask = {}
    /\ builder_mask = {}
    /\ norm_mask = {}
    /\ bone_mask = {}
    /\ peaks = {}
    /\ vertebrae = <<>>
    /\ n_verts = 0
    /\ mesh_result = "pending"
    /\ progress_log = <<>>
    /\ stage_log = <<>>
    /\ signals = <<>>
    /\ raised = "none"
    /\ mesh_vertices = 0
    /\ anomalies = <<>>
    /\ metrics = EmptyMetrics
    /\ StopIdle
    /\ ExtIdle

NextPipeline ==
    \/ Start
    \/ Load
    \/ Prepare
    \/ SegmentStage
    \/ MeshStage
    \/ DetectStage
    \/ ClassifyStage
    \/ AnomalyStage
    \/ AnalyzeStage
    \/ Finish

SpecPipeline == InitPipeline /\ [][NextPipeline]_vars

(***************************************************************************)
(* Properties of the pipeline                                              *)
(***************************************************************************)
Events(kind) ==
    {stage_log[i][2] : i \in {j \in 1 .. Len(stage_log) : stage_log[j][1] = kind}}

IsBegin(e) == e[1] = "begin"

\* The stages begun so far, in order.
BegunStages ==
    LET b == SelectSeq(stage_log, IsBegin)
    IN  [i \in 1 .. Len(b) |-> b[i][2]]

AbsorbedStages == {"mesh", "anomaly"}

WorkerDone == entry = "worker" /\ pc = "done"

\* C11 as stated: every run of AnalysisWorker.run emits exactly one terminal
\* signal, finished if no stage raised and error if some stage raised, never
\* both and never finished after an exception in any stage.
C11_OneTerminalSignal ==
    entry = "worker" =>
        /\ Len(signals) <= 1
        /\ pc # "done" => signals = <<>>
        /\ pc = "done" =>
              /\ Len(signals) = 1
              /\ (signals[1] = "finished") = (Events("raise") = {})

\* C11, amended: exactly one terminal signal per run, never both; it is
\* error exactly when an exception left a stage other than mesh generation
\* and anomaly detection, whose exceptions are absorbed (mesh None, no
\* anomalies), and finished, after every stage has been through, otherwise.
C11_OneTerminalSignalUnlessAbsorbed ==
    entry = "worker" =>
        /\ Len(signals) <= 1
        /\ pc # "done" => signals = <<>>
        /\ pc = "done" =>
              /\ Len(signals) = 1
              /\ (signals[1] = "error") = (Events("raise") \ AbsorbedStages # {})
              /\ signals[1] = "finished" =>
                    /\ Events("raise") \subseteq AbsorbedStages
                    /\ "summary" \in Events("end")

\* C11 witness: a run that fails in classification, after detection had
\* produced vertebrae, and answers with the error signal alone.
C11_Witness ==
    /\ WorkerDone
    /\ signals = <<"error">>
    /\ "classify" \in Events("raise")
    /\ Len(vertebrae) >= 1

Succeeded ==
    /\ pc = "done"
    /\ IF entry = "worker" THEN signals = <<"finished">> ELSE raised = "none"

\* C13: the percentages delivered to the progress sink over one run never
\* decrease and lie in 0..100, and a successful run has reported 100 last,
\* for reconstruct_from_volume, reconstruct_from_dicom and AnalysisWorker.run
\* with its int(p * 0.35) rescaling.
C13_ProgressMonotone ==
    /\ \A i \in 1 .. Len(progress_log) : progress_log[i] \in 0 .. 100
    /\ \A i \in 1 .. Len(progress_log) - 1 : progress_log[i] <= progress_log[i + 1]
    /\ Succeeded =>
          /\ Len(progress_log) > 0
          /\ progress_log[Len(progress_log)] = 100

\* C13 witness: a successful worker run whose reports include the rescaled
\* end of the reconstruction (35) after a rescaled 90 (31).
C13_Witness ==
    /\ WorkerDone
    /\ signals = <<"finished">>
    /\ \E i \in 1 .. Len(progress_log) - 1 :
          progress_log[i] = 31 /\ progress_log[i + 1] = 35

StageOrder == <<"prepare", "segment", "mesh", "detect", "classify", "analyze">>

IsOrdered(st) == \E i \in 1 .. Len(StageOrder) : StageOrder[i] = st

\* C14: the stages begin in the order preparation, segmentation, mesh
\* generation, detection, classification, quantitative analysis, each only
\* after the previous one has returned; the analysis gets the vertebra list
\* as classification left it.
C14_StageOrder ==
    LET begun == SelectSeq(BegunStages, IsOrdered)
    IN  /\ Len(begun) <= Len(StageOrder)
        /\ begun = SubSeq(StageOrder, 1, Len(begun))
        /\ \A i \in 1 .. Len(stage_log) :
              stage_log[i][1] = "begin" =>
                 /\ i < Len(stage_log)
                 /\ stage_log[i + 1][1] \in {"end", "raise"}
                 /\ stage_log[i + 1][2] = stage_log[i][2]
        /\ "classify" \in Events("begin") => "detect" \in Events("end")
        /\ "analyze" \in Events("begin") =>
              /\ "classify" \in Events("end")
              /\ \A i \in 1 .. Len(vertebrae) : "ml_status" \in DOMAIN vertebrae[i]
        /\ (entry = "worker" /\ Succeeded) => begun = StageOrder

\* C14 witness: a successful run through all six stages with vertebrae found.
C14_Witness ==
    /\ WorkerDone
    /\ signals = <<"finished">>
    /\ Len(vertebrae) >= 2
    /\ "vertebrae_count" \in DOMAIN metrics

\* C15: whenever the anomaly backend is absent (library missing or no model
\* loaded) or its detection call raises, the anomaly list of the result is
\* empty and the run still ends with finished, for every volume size.
C15_NoBackendNoAnomalies ==
    (entry = "worker" /\ "anomaly" \in Events("begin")
       /\ (yolo \in {"absent", "no_model"} \/ "anomaly" \in Events("raise"))) =>
        /\ anomalies = <<>>
        /\ (pc = "done" /\ fault \in {"none", "mesh"}) => signals = <<"finished">>

InvalidSpacing == dz10 <= 0 \/ spacing_yx[1] <= 0 \/ spacing_yx[2] <= 0

\* C16: a reconstruction called with an invalid spacing (dz, dy or dx <= 0)
\* fails fast: the error is raised before the first progress report and
\* before the prepare, segment or mesh stage is called.
C16_InvalidSpacingFailsFast ==
    (entry \in {"from_volume", "from_dicom"} /\ InvalidSpacing) =>
        /\ progress_log = <<>>
        /\ Events("begin") \cap {"prepare", "segment", "mesh"} = {}
        /\ pc = "done" => raised # "none"

UniformValue == CHOOSE v \in Values(volume) : TRUE

UniformBelowWindow ==
    /\ pc # "start"
    /\ Cardinality(Values(volume)) = 1
    /\ UniformValue < HU(hu_low)

\* What the claim promises of an all-background volume, stage by stage.
EmptyOutcome ==
    /\ "segment" \in Events("end") => bone_mask = {}
    /\ "mesh" \in Events("begin") => mesh_result = "None" /\ mesh_vertices = 0
    /\ "detect" \in Events("end") => vertebrae = <<>>
    /\ "analyze" \in Events("end") =>
          IF "bone_volume_cm3" \in DOMAIN metrics
          THEN metrics["bone_volume_cm3"] = 0 ELSE TRUE

\* C19 as stated: for any uniform volume whose value is a density below
\* hu_low the bone mask is entirely false, the vertebra list empty, the mesh
\* None with mesh_vertices = 0, and bone_volume_cm3 absent or zero.
C19_UniformBelowWindowEmpty ==
    UniformBelowWindow => EmptyOutcome

\* The value is at most 10 and inside the window rescaled to [0, 1]: such a
\* volume is taken as normalized and read as bone.
ReadAsNormalizedBone ==
    /\ UniformValue <= HU(RAW_MODE_MAX)
    /\ UniformValue >= hu_low + HU_OFFSET
    /\ UniformValue <= Min2(hu_high + HU_OFFSET, HU_SPAN)

\* C19, amended: the same, for every uniform value below hu_low that does
\* not lie in the rescaled window [(hu_low + 1024) / 4024,
\* min((hu_high + 1024) / 4024, 1)].
C19_UniformBackgroundEmpty ==
    (UniformBelowWindow /\ ~ReadAsNormalizedBone) => EmptyOutcome

\* C19 witness: the worker finished on a uniform volume of -500.
C19_Witness ==
    /\ WorkerDone
    /\ signals = <<"finished">>
    /\ Cardinality(Values(volume)) = 1
    /\ UniformValue = HU(-500)
    /\ shape[1] > 2
    /\ bone_mask = {}
    /\ "bone_volume_cm3" \notin DOMAIN metrics

(***************************************************************************)
(* ReconstructionWorker (src/app/workers/reconstruction_worker.py): run()  *)
(* on the worker thread, stop() on another.  The reconstruction calls the  *)
(* callback _progress_cb once per report; the test of _stop_requested and  *)
(* the emit that follows it are separate steps of the worker thread.       *)
(* stage_log records each callback invocation as <<"report", pct>>.        *)
(***************************************************************************)
StagesOf(e) ==
    IF e = "from_volume" THEN <<"start", "prepare", "segment", "mesh">>
    ELSE <<"start", "load", "prepare", "segment", "mesh">>

\* The reports of the first n stages of the reconstruction, in order.
RECURSIVE ReportsUpTo(_, _)
ReportsUpTo(e, n) ==
    IF n = 0 THEN <<>>
    ELSE ReportsUpTo(e, n - 1) \o ReconReports(e, StagesOf(e)[n])

AllReports(e) == ReportsUpTo(e, Len(StagesOf(e)))

\* Callback invocations made before the given stage is called.
ReportsBefore(e, stage) == Len(ReportsUpTo(e, IndexOf(StagesOf(e), stage)))

Calls == Cardinality({i \in 1 .. Len(stage_log) : stage_log[i][1] = "report"})

stopFrame == <<segVars, detVars, clsVars, meshVars, preset_arg, entry, fault, yolo,
               spacing_yx, raised, mesh_vertices, anomalies, metrics, extVars>>

\* reconstruction_worker.py:85-87: neither a folder nor a volume was given.
NoSource ==
    /\ pc = "running"
    /\ entry = "none"
    /\ signals' = Append(signals, "error")
    /\ pc' = "done"
    /\ UNCHANGED <<stopFrame, progress_log, stage_log, stopVars>>

\* reconstruction_worker.py:71: _progress_cb reads the flag.
CbCheck ==
    /\ pc = "running"
    /\ entry # "none"
    /\ cb_state = "idle"
    /\ Calls < Len(AllReports(entry))
    /\ ~(fault # "none" /\ Calls = ReportsBefore(entry, fault))
    /\ stage_log' = Append(stage_log, <<"report", AllReports(entry)[Calls + 1]>>)
    /\ cb_state' = IF stop_requested THEN "idle" ELSE "passed"
    /\ UNCHANGED <<stopFrame, pc, progress_log, signals, stop_requested, stop_mark>>

\* reconstruction_worker.py:72: the emit guarded by that read.
CbEmit ==
    /\ pc = "running"
    /\ cb_state = "passed"
    /\ progress_log' = Append(progress_log, AllReports(entry)[Calls])
    /\ cb_state' = "idle"
    /\ UNCHANGED <<stopFrame, pc, stage_log, signals, stop_requested, stop_mark>>

\* A stage of the reconstruction raises; reconstruction_worker.py:92-94
\* answers with the error signal.
StageRaise ==
    /\ pc = "running"
    /\ entry # "none"
    /\ cb_state = "idle"
    /\ fault # "none"
    /\ Calls = ReportsBefore(entry, fault)
    /\ stage_log' = Append(stage_log, <<"raise", fault>>)
    /\ signals' = Append(signals, "error")
    /\ pc' = "done"
    /\ UNCHANGED <<stopFrame, progress_log, stopVars>>

\* reconstruction_worker.py:89: the flag is read once more after the
\* reconstruction has returned.
FinalCheck ==
    /\ pc = "running"
    /\ entry # "none"
    /\ cb_state = "idle"
    /\ Calls = Len(AllReports(entry))
    /\ IF stop_requested
       THEN pc' = "done" /\ UNCHANGED cb_state
       ELSE pc' = pc /\ cb_state' = "passed_final"
    /\ UNCHANGED <<stopFrame, progress_log, stage_log, signals, stop_requested,
                   stop_mark>>

\* reconstruction_worker.py:90: finished is emitted.
FinalEmit ==
    /\ pc = "running"
    /\ cb_state = "passed_final"
    /\ signals' = Append(signals, "finished")
    /\ cb_state' = "idle"
    /\ pc' = "done"
    /\ UNCHANGED <<stopFrame, progress_log, stage_log, stop_requested, stop_mark>>

\* reconstruction_worker.py:96-99: stop(), from another thread, while run()
\* is executing.
Stop ==
    /\ pc = "running"
    /\ ~stop_requested
    /\ stop_requested' = TRUE
    /\ stop_mark' = <<Len(progress_log), Len(signals)>>
    /\ UNCHANGED <<stopFrame, pc, progress_log, stage_log, signals, cb_state>>

InitStop ==
    /\ pc = "running"
    /\ entry \in {"from_volume", "from_dicom", "none"}
    /\ fault \in IF entry = "none" THEN {"none"}
                 ELSE {"none"} \cup {StagesOf(entry)[i] : i \in 2 .. Len(StagesOf(entry)) - 1}
    /\ shape = <<1, 1, 1>>
    /\ volume = [p \in Grid(shape) |-> HU(-400)]
    /\ hu_low = PRESETS.spine[1]
    /\ hu_high = PRESETS.spine[2]
    /\ min_size = DEFAULT_MIN_SIZE
    /\ scipy_ok = TRUE
    /\ seg_mask = {}
    /\ clean_mask = {}
    /\ builder_mask = {}
    /\ norm_mask = {}
    /\ DetIdle
    /\ ClsIdle
    /\ MeshIdle
    /\ preset_arg = "spine"
    /\ yolo = "absent"
    /\ spacing_yx = <<10, 10>>
    /\ progress_log = <<>>
    /\ stage_log = <<>>
    /\ signals = <<>>
    /\ raised = "none"
    /\ mesh_vertices = 0
    /\ anomalies = <<>>
    /\ metrics = <<>>
    /\ StopIdle
    /\ ExtIdle

NextStop ==
    \/ NoSource
    \/ CbCheck
    \/ CbEmit
    \/ StageRaise
    \/ FinalCheck
    \/ FinalEmit
    \/ Stop

SpecStop == InitStop /\ [][NextStop]_vars

\* C12: once stop() has been called while run() is executing, this run
\* emits no further progress signal and no finished signal, under every
\* interleaving of stop() with the flag checks and emits of run().
C12_NoSignalAfterStop ==
    stop_mark # <<>> =>
        /\ Len(progress_log) = stop_mark[1]
        /\ \A i \in 1 .. Len(signals) : i > stop_mark[2] => signals[i] # "finished"

(***************************************************************************)
(* MeshGenerator._postprocess (mesh_generator.py:134-158): decimation,     *)
(* normals, smoothing inside one try block.  stage_log records what was    *)
(* done to the mesh: <<"end", step>> for a step applied, <<"skip", step>>  *)
(* for a step whose condition was false, <<"raise", step>> for a step      *)
(* whose library call raised.  fault names the call that raises if made.   *)
(***************************************************************************)
\* mesh_generator.py:138  mesh.n_cells > 5000
DECIMATE_MIN_CELLS == 5000

PostSteps == <<"decimate", "normals", "smooth">>

postFrame == <<segVars, detVars, clsVars, meshVars, preset_arg, entry, fault, yolo,
               spacing_yx, progress_log, signals, raised, mesh_vertices, anomalies,
               metrics, stopVars, ruleVars, workerVars, uiVars,
               decimate_ratio, smooth_iterations>>

\* mesh_generator.py:155-156: the one handler of the try block; control
\* goes from the raising call straight to the return.
PostRaise(step) ==
    /\ stage_log' = Append(stage_log, <<"raise", step>>)
    /\ pc' = "returned"

\* mesh_generator.py:138-140.
Decimate ==
    /\ pc = "decimate"
    /\ IF decimate_ratio > 0 /\ n_cells > DECIMATE_MIN_CELLS
       THEN IF fault = "decimate"
            THEN PostRaise("decimate") /\ UNCHANGED n_cells
            ELSE /\ n_cells' = (n_cells * (100 - decimate_ratio)) \div 100
                 /\ stage_log' = Append(stage_log, <<"end", "decimate">>)
                 /\ pc' = "normals"
       ELSE /\ stage_log' = Append(stage_log, <<"skip", "decimate">>)
            /\ pc' = "normals"
            /\ UNCHANGED n_cells
    /\ UNCHANGED postFrame

\* mesh_generator.py:143-149.
ComputeNormals ==
    /\ pc = "normals"
    /\ IF fault = "normals"
       THEN PostRaise("normals")
       ELSE /\ stage_log' = Append(stage_log, <<"end", "normals">>)
            /\ pc' = "smooth"
    /\ UNCHANGED <<postFrame, n_cells>>

\* mesh_generator.py:152-153.
Smooth ==
    /\ pc = "smooth"
    /\ IF smooth_iterations > 0
       THEN IF fault = "smooth"
            THEN PostRaise("smooth")
            ELSE /\ stage_log' = Append(stage_log, <<"end", "smooth">>)
                 /\ pc' = "returned"
       ELSE /\ stage_log' = Append(stage_log, <<"skip", "smooth">>)
            /\ pc' = "returned"
    /\ UNCHANGED <<postFrame, n_cells>>

PostRatios == {0, 30, 90}

PostIterations == {0, 1, 20}

PostCells == {12, DECIMATE_MIN_CELLS, DECIMATE_MIN_CELLS + 1, 20000}

InitPost ==
    /\ pc = "decimate"
    /\ decimate_ratio \in PostRatios
    /\ smooth_iterations \in PostIterations
    /\ n_cells \in PostCells
    /\ fault \in {"none", "decimate", "normals", "smooth"}
    /\ shape = <<1, 1, 1>>
    /\ volume = [p \in Grid(shape) |-> HU(-400)]
    /\ hu_low = PRESETS.spine[1]
    /\ hu_high = PRESETS.spine[2]
    /\ min_size = 0
    /\ scipy_ok = TRUE
    /\ seg_mask = {}
    /\ clean_mask = {}
    /\ builder_mask = {}
    /\ norm_mask = {}
    /\ DetIdle
    /\ ClsIdle
    /\ MeshIdle
    /\ preset_arg = "spine"
    /\ entry = "none"
    /\ yolo = "absent"
    /\ spacing_yx = <<10, 10>>
    /\ progress_log = <<>>
    /\ stage_log = <<>>
    /\ signals = <<>>
    /\ raised = "none"
    /\ mesh_vertices = 0
    /\ anomalies = <<>>
    /\ metrics = <<>>
    /\ StopIdle
    /\ RuleIdle
    /\ WorkerIdle
    /\ UiIdle

NextPost == Decimate \/ ComputeNormals \/ Smooth

SpecPost == InitPost /\ [][NextPost]_vars

\* The steps the mesh went through, applied or not.
Attempted == {stage_log[i][2] : i \in 1 .. Len(stage_log)}

StepNo(step) == IndexOf(PostSteps, step)

\* C21: the post-processing steps are attempted in the order decimation,
\* normals, smoothing, and a step that fails is skipped without keeping the
\* later steps from being applied to the mesh.
C21_FailedStepDoesNotStopLater ==
    /\ \A i, j \in 1 .. Len(stage_log) :
          i < j => StepNo(stage_log[i][2]) < StepNo(stage_log[j][2])
    /\ pc = "returned" =>
          \A i \in 1 .. Len(stage_log) :
             stage_log[i][1] = "raise" =>
                \A k \in 1 .. Len(PostSteps) :
                   k - 1 > StepNo(stage_log[i][2]) => PostSteps[k] \in Attempted

(***************************************************************************)
(* VertebraDetector._classify as a function of its arguments: hu_mean in   *)
(* tenths of a Hounsfield unit, comp_ratio in thousandths.                 *)
(***************************************************************************)
\* vertebra_detector.py:206-214, called with hu_mean and comp_ratio.
ClassifyRule ==
    /\ pc = "input"
    /\ rule_status' = classify_rule(classify_args[1], 10, classify_args[2], 1000)
    /\ pc' = "ruled"
    /\ UNCHANGED <<segVars, detVars, clsVars, meshVars, runVars, stopVars,
                   postVars, classify_args, workerVars, uiVars>>

\* Ratios and densities on, next to and away from the thresholds.
RuleRatios == {0, 500, 699, 700, 701, 749, 750, 751, 1000, 1249, 1250, 1251, 3000}

RuleHUs == {-4000, 0, 1499, 1500, 1501, 7000}

InitRule ==
    /\ pc = "input"
    /\ classify_args \in RuleHUs \X RuleRatios
    /\ rule_status = "none"
    /\ shape = <<1, 1, 1>>
    /\ volume = [p \in Grid(shape) |-> HU(-400)]
    /\ hu_low = PRESETS.spine[1]
    /\ hu_high = PRESETS.spine[2]
    /\ min_size = 0
    /\ scipy_ok = TRUE
    /\ seg_mask = {}
    /\ clean_mask = {}
    /\ builder_mask = {}
    /\ norm_mask = {}
    /\ DetIdle
    /\ ClsIdle
    /\ MeshIdle
    /\ RunIdle
    /\ StopIdle
    /\ PostIdle
    /\ WorkerIdle
    /\ UiIdle

NextRule == ClassifyRule

SpecRule == InitRule /\ [][NextRule]_vars

\* C22: the rule-based status is a total function of (compression_ratio,
\* hu_mean) with strict precedence: ratio < 0.7 gives comprimée; otherwise
\* hu_mean < 150 gives ostéopénique; otherwise |ratio - 1| > 0.25 gives
\* suspect; otherwise normal.  Exactly one status results, also for ratio 0
\* with hu_mean 0 and on the boundary values 0.7, 150, 0.75 and 1.25.
C22_RulePrecedence ==
    pc = "ruled" =>
        LET hu == classify_args[1]
            r == classify_args[2]
            compressed == r < 700
            osteopenic == ~compressed /\ hu < 1500
            suspect == ~compressed /\ ~osteopenic /\ (r - 1000 > 250 \/ 1000 - r > 250)
        IN  /\ rule_status \in {"comprimée", "ostéopénique", "suspect", "normal"}
            /\ (rule_status = "comprimée") = compressed
            /\ (rule_status = "ostéopénique") = osteopenic
            /\ (rule_status = "suspect") = suspect
            /\ (rule_status = "normal") = (~compressed /\ ~osteopenic /\ ~suspect)
            /\ classify_args = <<0, 0>> => rule_status = "comprimée"

\* C22 witness: ratio exactly 0.7 with hu_mean exactly 150 is past the first
\* two rules and, 0.3 away from 1, comes out suspect.
C22_Witness ==
    /\ pc = "ruled"
    /\ classify_args = <<1500, 700>>
    /\ rule_status = "suspect"

(***************************************************************************)
(* Properties of the detector's labels, metrics and ranges                 *)
(***************************************************************************)
\* vertebra_detector.py:17-22
VERTEBRA_LABELS ==
    [thoracique |-> <<"T1", "T2", "T3", "T4", "T5", "T6",
                      "T7", "T8", "T9", "T10", "T11", "T12">>,
     lombaire   |-> <<"L1", "L2", "L3", "L4", "L5">>,
     sacre      |-> <<"S1">>]

Members(seq) == {seq[i] : i \in 1 .. Len(seq)}

\* 0 sacral, 1 lumbar, 2 thoracic, 3 for a synthetic label.
RegionRank(label) ==
    IF label \in Members(VERTEBRA_LABELS.sacre) THEN 0
    ELSE IF label \in Members(VERTEBRA_LABELS.lombaire) THEN 1
    ELSE IF label \in Members(VERTEBRA_LABELS.thoracique) THEN 2
    ELSE 3

C25_ComponentsAtLeastMinSize ==
    (pc = "cleaned" /\ scipy_ok) =>
        \A c \in Components(clean_mask) : Cardinality(c) >= min_size

\* Every consecutive pair of boundaries was long enough to be retained.
NoneDiscarded ==
    /\ Cardinality(BoundarySet) >= 2
    /\ RetainedCount = Cardinality(BoundarySet) - 1

Covering(z) ==
    {i \in 1 .. Len(vertebrae) : vertebrae[i].z_start <= z /\ z < vertebrae[i].z_end}

\* C28: when no candidate segment is discarded as too short, the half-open
\* ranges [z_start, z_end) of the vertebrae detect returns cover every slice
\* 0..nz-1, so each bone voxel, those of the last slice included, counts in
\* exactly one vertebra.
C28_RangesCoverAllSlices ==
    (Detected /\ ProfileAboveFloor /\ NoneDiscarded) =>
        \A z \in 0 .. shape[1] - 1 : Cardinality(Covering(z)) = 1

RegionOf(v) == {p \in bone_mask : p[1] >= v.z_start /\ p[1] < v.z_end}

Mirror(p) == <<p[1], shape[2] - 1 - p[2], p[3]>>

MirrorSymmetric(v) ==
    /\ RegionOf(v) # {}
    /\ \A p \in RegionOf(v) : Mirror(p) \in RegionOf(v)

\* C29: a vertebra whose bone mask is mirror-symmetric about the midpoint of
\* the secondary axis (a filled slab, say) has compression_ratio 1 for every
\* ny >= 2, odd or even, and is never given the status comprimée.
C29_SymmetricRatioOne ==
    Detected =>
        \A i \in 1 .. Len(vertebrae) :
            (shape[2] >= 2 /\ MirrorSymmetric(vertebrae[i])) =>
                /\ vertebrae[i].compression_ratio = 1000
                /\ vertebrae[i].status # "comprimée"

\* C27: in every record detect returns, the stored status is the rule-based
\* classification of the compression_ratio and hu_mean stored in the same
\* record, as rounded to 3 and 1 decimals; no record is comprimée with a
\* stored compression_ratio >= 0.7.
C27_StatusMatchesStoredValues ==
    Detected =>
        \A i \in 1 .. Len(vertebrae) :
            /\ vertebrae[i].status =
                  classify_rule(vertebrae[i].hu_mean, 10,
                                vertebrae[i].compression_ratio, 1000)
            /\ vertebrae[i].status = "comprimée" => vertebrae[i].compression_ratio < 700

(***************************************************************************)
(* AnalysisWorker.stop() during a run of the worker.                       *)
(***************************************************************************)
\* analysis_worker.py:111-112, called from the main thread while run() is
\* executing.
StopWorker ==
    /\ entry = "worker"
    /\ pc # "done"
    /\ is_running
    /\ stopped_at = <<>>
    /\ is_running' = FALSE
    /\ stopped_at' = <<Len(stage_log), Len(signals)>>
    /\ UNCHANGED <<pc, segVars, detVars, clsVars, meshVars, runVars, stopVars,
                   postVars, ruleVars, uiVars>>

\* Runs of the worker on the longest volumes, with a valid spacing, no
\* anomaly backend and the rule-based fallback of the classifier, that go
\* through or fail in detection.
InitWorkerStop ==
    /\ InitPipeline
    /\ entry = "worker"
    /\ shape[1] = PipeMaxNz
    /\ dz10 = 10
    /\ spacing_yx = <<10, 10>>
    /\ yolo = "absent"
    /\ fault \in {"none", "detect"}
    /\ is_trained = FALSE

NextWorkerStop == NextPipeline \/ StopWorker

SpecWorkerStop == InitWorkerStop /\ [][NextWorkerStop]_vars

\* C24: after AnalysisWorker.stop() is requested while run() is executing,
\* the run returns early: no stage that had not begun is started afterwards
\* and finished is not emitted for that run.
C24_StopEndsRun ==
    stopped_at # <<>> =>
        /\ \A i \in 1 .. Len(stage_log) :
              i > stopped_at[1] => stage_log[i][1] # "begin"
        /\ \A i \in 1 .. Len(signals) :
              i > stopped_at[2] => signals[i] # "finished"

(***************************************************************************)
(* MainWindow and its analysis threads (src/app/ui/main_window.py).        *)
(*                                                                         *)
(* workers[i] is the i-th worker run_analysis created, with the state st   *)
(* of its thread: "starting" (thread.start() called), "running" (run()     *)
(* executing), "looping" (run() has returned, the thread's event loop goes *)
(* on), "quitting" (quit() called), "finished" (the thread has ended).     *)
(* Signals of a worker thread reach the slots of the main thread through   *)
(* ui_queue, in the order of their emission.                               *)
(***************************************************************************)
UiMaxRuns == 3

uiFrame == <<pc, segVars, detVars, clsVars, meshVars, runVars, stopVars,
             postVars, ruleVars, workerVars>>

SetSt(i, st) == [workers EXCEPT ![i].st = st]

ThreadAlive(i) == workers[i].st # "finished"

\* main_window.py:612-662.  With is_analysis_running set the call returns
\* at line 628 without starting anything.
RunAnalysis ==
    /\ ~is_analysis_running
    /\ Len(workers) < UiMaxRuns
    /\ is_analysis_running' = TRUE
    /\ workers' = Append(workers, [st |-> "starting", is_running |-> FALSE])
    /\ analysis_worker' = Len(workers) + 1
    /\ UNCHANGED <<uiFrame, ui_queue>>

\* main_window.py:665-669 and analysis_worker.py:111-112.
StopAnalysis ==
    /\ analysis_worker # 0
    /\ workers[analysis_worker].is_running
    /\ workers' = [workers EXCEPT ![analysis_worker].is_running = FALSE]
    /\ UNCHANGED <<uiFrame, is_analysis_running, analysis_worker, ui_queue>>

\* main_window.py:648 and analysis_worker.py:34: the thread has started
\* and calls run().
ThreadRun(i) ==
    /\ workers[i].st = "starting"
    /\ workers' = [workers EXCEPT ![i].st = "running", ![i].is_running = TRUE]
    /\ UNCHANGED <<uiFrame, is_analysis_running, analysis_worker, ui_queue>>

\* analysis_worker.py:103-109: run() emits finished or error, clears
\* is_running and returns to the event loop of its thread.
RunReturn(i) ==
    /\ workers[i].st = "running"
    /\ \E outcome \in {"finished", "error"} :
          ui_queue' = Append(ui_queue, <<outcome, i>>)
    /\ workers' = [workers EXCEPT ![i].st = "looping", ![i].is_running = FALSE]
    /\ UNCHANGED <<uiFrame, is_analysis_running, analysis_worker>>

\* main_window.py:650 and :652 with :697-707: the main thread handles the
\* finished signal: on_analysis_finished, then analysis_thread.quit.
OnAnalysisFinished ==
    /\ ui_queue # <<>>
    /\ Head(ui_queue)[1] = "finished"
    /\ is_analysis_running' = FALSE
    /\ workers' = SetSt(Head(ui_queue)[2], "quitting")
    /\ ui_queue' = Tail(ui_queue)
    /\ UNCHANGED <<uiFrame, analysis_worker>>

\* main_window.py:651 with :734-744: the error signal has the one slot
\* on_analysis_error.
OnAnalysisError ==
    /\ ui_queue # <<>>
    /\ Head(ui_queue)[1] = "error"
    /\ is_analysis_running' = FALSE
    /\ ui_queue' = Tail(ui_queue)
    /\ UNCHANGED <<uiFrame, analysis_worker, workers>>

\* The event loop of the thread leaves after quit(); the thread ends and
\* emits QThread.finished.
ThreadExit(i) ==
    /\ workers[i].st = "quitting"
    /\ workers' = SetSt(i, "finished")
    /\ ui_queue' = Append(ui_queue, <<"thread_finished", i>>)
    /\ UNCHANGED <<uiFrame, is_analysis_running, analysis_worker>>

\* main_window.py:655-657: the lambda connected to the thread's finished
\* signal.
OnThreadFinished ==
    /\ ui_queue # <<>>
    /\ Head(ui_queue)[1] = "thread_finished"
    /\ is_analysis_running' = FALSE
    /\ ui_queue' = Tail(ui_queue)
    /\ UNCHANGED <<uiFrame, analysis_worker, workers>>

InitUI ==
    /\ pc = "ui"
    /\ shape = <<1, 1, 1>>
    /\ volume = [p \in Grid(shape) |-> HU(-400)]
    /\ hu_low = PRESETS.spine[1]
    /\ hu_high = PRESETS.spine[2]
    /\ min_size = 0
    /\ scipy_ok = TRUE
    /\ seg_mask = {}
    /\ clean_mask = {}
    /\ builder_mask = {}
    /\ norm_mask = {}
    /\ DetIdle
    /\ ClsIdle
    /\ MeshIdle
    /\ RunIdle
    /\ StopIdle
    /\ ExtIdle

ThreadsRun == \E i \in 1 .. Len(workers) : ThreadRun(i)

RunsReturn == \E i \in 1 .. Len(workers) : RunReturn(i)

ThreadsExit == \E i \in 1 .. Len(workers) : ThreadExit(i)

NextUI ==
    \/ RunAnalysis
    \/ StopAnalysis
    \/ ThreadsRun
    \/ RunsReturn
    \/ OnAnalysisFinished
    \/ OnAnalysisError
    \/ ThreadsExit
    \/ OnThreadFinished

\* The threads and the event loop of the main thread keep going; the user
\* need not act.
SpecUI ==
    /\ InitUI
    /\ [][NextUI]_vars
    /\ WF_vars(ThreadsRun)
    /\ WF_vars(RunsReturn)
    /\ WF_vars(OnAnalysisFinished)
    /\ WF_vars(OnAnalysisError)
    /\ WF_vars(ThreadsExit)
    /\ WF_vars(OnThreadFinished)

Executing == {i \in 1 .. Len(workers) : workers[i].st = "running"}

RunEnded(i) == i <= Len(workers) /\ workers[i].st \in {"looping", "quitting", "finished"}

ThreadEnded(i) == i <= Len(workers) /\ workers[i].st = "finished"

\* C26: every analysis thread started by run_analysis eventually quits
\* after its worker's run has ended, with finished or with error, and no
\* analysis thread is still running once is_analysis_running is False again.
C26_ThreadsEventuallyQuit ==
    /\ \A i \in 1 .. UiMaxRuns : RunEnded(i) ~> ThreadEnded(i)
    /\ [](~is_analysis_running => \A i \in 1 .. Len(workers) : ~ThreadAlive(i))

\* C30: at most one AnalysisWorker.run is executing at any time, and
\* is_analysis_running is true throughout every worker run, under every
\* interleaving of run_analysis and stop_analysis with the worker's signals
\* and the end of its thread.
C30_OneRunAtATime ==
    /\ Cardinality(Executing) <= 1
    /\ Executing # {} => is_analysis_running

====
